---------------------------- MODULE Spec2Model ----------------------------
(***************************************************************************)
(* Verification model of the DDL planner of isomorphicdb                   *)
(* (data/schema_planner): SystemSchemaPlanner::schema_change_plan lowers a *)
(* SchemaChange intent into a SystemOperation, a list of sub-programs of   *)
(* low-level steps.  The second half of the module executes such an        *)
(* operation step by step against a catalog (records) and a storage        *)
(* (folders, files).                                                       *)
(*                                                                         *)
(* Specifications:                                                         *)
(*   Spec      the planner alone: an intent is drawn, the plan is built.   *)
(*   ExecSpec  intents are planned and the plan's steps are applied one at *)
(*             a time to the catalog.                                      *)
(*   TypeSpec  entities/types: type ids of SqlType, compare of families.   *)
(*   NameSpec  entities/definition: constructors of SchemaName and of      *)
(*             FullTableName.                                              *)
(*   TreeSpec  query_analyzer: StaticTreeBuilder::build_from.              *)
(*   AnalyzeSpec  DML statements are analyzed against the catalog, between *)
(*             DDL statements that are planned and executed.               *)
(*   ReadSpec  read_query/executor: ReadQueryExecutor::execute on a table. *)
(***************************************************************************)
EXTENDS Integers, Sequences, FiniteSets, TLC

VARIABLES
    change,     \* the SchemaChange handed to the planner
    plan,       \* the SystemOperation the planner returned
    pc,         \* "idle" | "planned" | "running" | "done"
    sub,        \* index of the sub-program being executed (outer index of steps)
    ip,         \* index of the next step inside that sub-program
    catalog,    \* [schemas, tables, columns, folders, files]
    before,     \* the catalog as it was when the running plan was submitted
    outcome,    \* Ok, or the error execution ended with
    again,      \* TRUE while the plan (or statement) at hand is a repeat of the previous one
    call,       \* the function call or statement under evaluation, with its arguments
    ret         \* what that call returned

vars == <<change, plan, pc, sub, ip, catalog, before, outcome, again, call, ret>>

---------------------------------------------------------------------------
(* Bounds of the model. *)

\* longest list of names in a DROP statement
MaxNames == 2

\* longest column list in a CREATE TABLE statement
MaxColumns == 2

---------------------------------------------------------------------------
(* Values: names, types, Option. *)

None == <<>>

Some(x) == <<x>>

\* Result<T, E>: Ok(value), Err(error); a panic (unwrap of None, unreachable!())
\* is a third outcome
OkOf(value) == [ok |-> TRUE, value |-> value]

ErrOf(error) == [ok |-> FALSE, error |-> error]

Panicked == [ok |-> FALSE, panic |-> TRUE]

\* no call is under evaluation
NoCall == [fn |-> "none"]

NoRet == [ok |-> TRUE, value |-> "none"]

\* sequences over S of length 0..n
SeqUpTo(S, n) == UNION {[1..k -> S] : k \in 0..n}

\* definition::SchemaName values (the planner reads them through as_ref)
SchemaNames == {"schema", "other_schema"}

TableNames == {"table", "other_table"}

\* definition::FullTableName((schema, table))
FullTableName(schema_name, table_name) == <<schema_name, table_name>>

schema(full_table_name) == full_table_name[1]

table(full_table_name) == full_table_name[2]

FullTableNames == {FullTableName(s, t) : s \in SchemaNames, t \in TableNames}

\* types::SqlType constructors
small_int == [tag |-> "Num", num |-> "SmallInt"]

big_int == [tag |-> "Num", num |-> "BigInt"]

SqlTypes == {small_int, big_int}

ColumnNames == {"col_1", "col_2"}

\* data_definition_execution_plan::ColumnInfo
ColumnInfo(name, sql_type) == [name |-> name, sql_type |-> sql_type]

ColumnInfos == {ColumnInfo(n, t) : n \in ColumnNames, t \in SqlTypes}

---------------------------------------------------------------------------
(* SchemaChange: the planner's input. *)

CreateSchema(schema_name, if_not_exists) ==
    [tag |-> "CreateSchema", schema_name |-> schema_name, if_not_exists |-> if_not_exists]

DropSchemas(schema_names, cascade, if_exists) ==
    [tag |-> "DropSchemas", schema_names |-> schema_names,
     cascade |-> cascade, if_exists |-> if_exists]

CreateTable(full_table_name, column_defs, if_not_exists) ==
    [tag |-> "CreateTable", full_table_name |-> full_table_name,
     column_defs |-> column_defs, if_not_exists |-> if_not_exists]

DropTables(full_table_names, cascade, if_exists) ==
    [tag |-> "DropTables", full_table_names |-> full_table_names,
     cascade |-> cascade, if_exists |-> if_exists]

SchemaChanges ==
    {CreateSchema(n, f) : n \in SchemaNames, f \in BOOLEAN}
    \cup {DropSchemas(ns, c, f) : ns \in SeqUpTo(SchemaNames, MaxNames),
                                   c \in BOOLEAN, f \in BOOLEAN}
    \cup {CreateTable(t, cols, f) : t \in FullTableNames,
                                     cols \in SeqUpTo(ColumnInfos, MaxColumns),
                                     f \in BOOLEAN}
    \cup {DropTables(ts, c, f) : ts \in SeqUpTo(FullTableNames, MaxNames),
                                  c \in BOOLEAN, f \in BOOLEAN}

---------------------------------------------------------------------------
(* SystemOperation: the planner's output. *)

Schema == "Schema"

Table == "Table"

Exists == "Exists"

NotExists == "NotExists"

Create(system_object) == [op |-> "Create", object |-> system_object]

Drop(system_object) == [op |-> "Drop", object |-> system_object]

SchemaRecord(schema_name) == [record |-> "Schema", schema_name |-> schema_name]

TableRecord(schema_name, table_name) ==
    [record |-> "Table", schema_name |-> schema_name, table_name |-> table_name]

ColumnRecord(schema_name, table_name, column_name, sql_type) ==
    [record |-> "Column", schema_name |-> schema_name, table_name |-> table_name,
     column_name |-> column_name, sql_type |-> sql_type]

CheckExistence(system_object, object_name) ==
    [step |-> "CheckExistence", system_object |-> system_object, object_name |-> object_name]

CheckDependants(system_object, object_name) ==
    [step |-> "CheckDependants", system_object |-> system_object, object_name |-> object_name]

RemoveDependants(system_object, object_name) ==
    [step |-> "RemoveDependants", system_object |-> system_object, object_name |-> object_name]

CreateFolder(name) == [step |-> "CreateFolder", name |-> name]

RemoveFolder(name, only_if_empty) ==
    [step |-> "RemoveFolder", name |-> name, only_if_empty |-> only_if_empty]

CreateFile(folder_name, name) ==
    [step |-> "CreateFile", folder_name |-> folder_name, name |-> name]

RemoveFile(folder_name, name) ==
    [step |-> "RemoveFile", folder_name |-> folder_name, name |-> name]

CreateRecord(record) == [step |-> "CreateRecord", record |-> record]

RemoveRecord(record) == [step |-> "RemoveRecord", record |-> record]

RemoveColumns(schema_name, table_name) ==
    [step |-> "RemoveColumns", schema_name |-> schema_name, table_name |-> table_name]

SystemOperation(kind, skip_steps_if, steps) ==
    [kind |-> kind, skip_steps_if |-> skip_steps_if, steps |-> steps]

---------------------------------------------------------------------------
(* SystemSchemaPlanner::schema_change_plan, one operator per match arm. *)

\* a planner that never sets the skip condition
skip_steps_if_flag_Never(flag, state) == None

\* a planner that sets the skip condition whatever the flag says
skip_steps_if_flag_Always(flag, state) == Some(state)

\* `if *flag { Some(state) } else { None }`
skip_steps_if_flag(flag, state) == IF flag THEN Some(state) ELSE None

\* a planner that creates the folder before it checks for the schema
CreateSchemaPlan_FolderFirst(q) ==
    SystemOperation(
        Create(Schema),
        skip_steps_if_flag(q.if_not_exists, Exists),
        << << CreateFolder(q.schema_name),
              CheckExistence(Schema, <<q.schema_name>>),
              CreateRecord(SchemaRecord(q.schema_name)) >> >>)

CreateSchemaPlan(q) ==
    SystemOperation(
        Create(Schema),
        skip_steps_if_flag(q.if_not_exists, Exists),
        << << CheckExistence(Schema, <<q.schema_name>>),
              CreateFolder(q.schema_name),
              CreateRecord(SchemaRecord(q.schema_name)) >> >>)

\* a loop body that forgets the negation in `only_if_empty: !*cascade`
for_schema_SameFlag(schema_name, cascade) ==
    << CheckExistence(Schema, <<schema_name>>),
       IF cascade THEN RemoveDependants(Schema, <<schema_name>>)
                  ELSE CheckDependants(Schema, <<schema_name>>),
       RemoveRecord(SchemaRecord(schema_name)),
       RemoveFolder(schema_name, cascade) >>

\* the body of `for schema_name in schema_names`
for_schema(schema_name, cascade) ==
    << CheckExistence(Schema, <<schema_name>>),
       IF cascade THEN RemoveDependants(Schema, <<schema_name>>)
                  ELSE CheckDependants(Schema, <<schema_name>>),
       RemoveRecord(SchemaRecord(schema_name)),
       RemoveFolder(schema_name, ~cascade) >>

\* a planner that walks the schema names from the last to the first
DropSchemasPlan_Reversed(q) ==
    SystemOperation(
        Drop(Schema),
        skip_steps_if_flag(q.if_exists, NotExists),
        [i \in 1..Len(q.schema_names) |->
            for_schema(q.schema_names[Len(q.schema_names) + 1 - i], q.cascade)])

\* a planner that plans a schema only the first time its name appears
DropSchemasPlan_Dedup(q) ==
    LET first == {i \in 1..Len(q.schema_names) :
                     \A j \in 1..(i - 1) : q.schema_names[j] # q.schema_names[i]}
        kept == SelectSeq([i \in 1..Len(q.schema_names) |-> i], LAMBDA i : i \in first)
    IN SystemOperation(
        Drop(Schema),
        skip_steps_if_flag(q.if_exists, NotExists),
        [i \in 1..Len(kept) |-> for_schema(q.schema_names[kept[i]], q.cascade)])

DropSchemasPlan(q) ==
    SystemOperation(
        Drop(Schema),
        skip_steps_if_flag(q.if_exists, NotExists),
        [i \in 1..Len(q.schema_names) |-> for_schema(q.schema_names[i], q.cascade)])

\* a planner that records a column only the first time its name appears
CreateTablePlan_Dedup(q) ==
    LET first == {i \in 1..Len(q.column_defs) :
                     \A j \in 1..(i - 1) : q.column_defs[j].name # q.column_defs[i].name}
        kept == SelectSeq([i \in 1..Len(q.column_defs) |-> i], LAMBDA i : i \in first)
    IN SystemOperation(
        Create(Table),
        skip_steps_if_flag(q.if_not_exists, Exists),
        << << CheckExistence(Schema, <<schema(q.full_table_name)>>),
              CheckExistence(Table, <<schema(q.full_table_name), table(q.full_table_name)>>),
              CreateFile(schema(q.full_table_name), table(q.full_table_name)),
              CreateRecord(TableRecord(schema(q.full_table_name), table(q.full_table_name))) >>
           \o [i \in 1..Len(kept) |->
                 CreateRecord(ColumnRecord(schema(q.full_table_name),
                                           table(q.full_table_name),
                                           q.column_defs[kept[i]].name,
                                           q.column_defs[kept[i]].sql_type))] >>)

CreateTablePlan(q) ==
    SystemOperation(
        Create(Table),
        skip_steps_if_flag(q.if_not_exists, Exists),
        << << CheckExistence(Schema, <<schema(q.full_table_name)>>),
              CheckExistence(Table, <<schema(q.full_table_name), table(q.full_table_name)>>),
              CreateFile(schema(q.full_table_name), table(q.full_table_name)),
              CreateRecord(TableRecord(schema(q.full_table_name), table(q.full_table_name))) >>
           \o [i \in 1..Len(q.column_defs) |->
                 CreateRecord(ColumnRecord(schema(q.full_table_name),
                                           table(q.full_table_name),
                                           q.column_defs[i].name,
                                           q.column_defs[i].sql_type))] >>)

\* a loop body that removes the file before the table record
for_table_FileFirst(full_table_name) ==
    << CheckExistence(Schema, <<schema(full_table_name)>>),
       CheckExistence(Table, <<schema(full_table_name), table(full_table_name)>>),
       RemoveColumns(schema(full_table_name), table(full_table_name)),
       RemoveFile(schema(full_table_name), table(full_table_name)),
       RemoveRecord(TableRecord(schema(full_table_name), table(full_table_name))) >>

\* the body of `for full_table_name in full_table_names`
for_table(full_table_name) ==
    << CheckExistence(Schema, <<schema(full_table_name)>>),
       CheckExistence(Table, <<schema(full_table_name), table(full_table_name)>>),
       RemoveColumns(schema(full_table_name), table(full_table_name)),
       RemoveRecord(TableRecord(schema(full_table_name), table(full_table_name))),
       RemoveFile(schema(full_table_name), table(full_table_name)) >>

\* a planner that treats cascade for tables as it does for schemas
DropTablesPlan_Cascade(q) ==
    SystemOperation(
        Drop(Table),
        skip_steps_if_flag(q.if_exists, NotExists),
        [i \in 1..Len(q.full_table_names) |->
            LET f == q.full_table_names[i]
                name == <<schema(f), table(f)>>
            IN  SubSeq(for_table(f), 1, 2)
                \o << IF q.cascade THEN RemoveDependants(Table, name)
                                   ELSE CheckDependants(Table, name) >>
                \o SubSeq(for_table(f), 3, 5)])

\* the pattern binds full_table_names and if_exists only (`..` drops cascade)
DropTablesPlan(q) ==
    SystemOperation(
        Drop(Table),
        skip_steps_if_flag(q.if_exists, NotExists),
        [i \in 1..Len(q.full_table_names) |-> for_table(q.full_table_names[i])])

schema_change_plan(schema_change) ==
    CASE schema_change.tag = "CreateSchema" -> CreateSchemaPlan(schema_change)
      [] schema_change.tag = "DropSchemas"  -> DropSchemasPlan(schema_change)
      [] schema_change.tag = "CreateTable"  -> CreateTablePlan(schema_change)
      [] schema_change.tag = "DropTables"   -> DropTablesPlan(schema_change)

---------------------------------------------------------------------------
(* The planner alone. *)

EmptyCatalog ==
    [schemas |-> {}, tables |-> {}, columns |-> [t \in FullTableNames |-> <<>>],
     folders |-> {}, files |-> {}]

Ok == [ok |-> TRUE]

NoPlan == SystemOperation(Create(Schema), None, <<>>)

Init ==
    /\ change \in SchemaChanges
    /\ plan = NoPlan
    /\ pc = "idle"
    /\ sub = 1
    /\ ip = 1
    /\ catalog = EmptyCatalog
    /\ before = EmptyCatalog
    /\ outcome = Ok
    /\ again = FALSE
    /\ call = NoCall
    /\ ret = NoRet

\* QUERY_PLANNER.schema_change_plan(&change)
Plan ==
    /\ pc = "idle"
    /\ plan' = schema_change_plan(change)
    /\ pc' = "planned"
    /\ UNCHANGED <<change, sub, ip, catalog, before, outcome, again, call, ret>>

Next == Plan

Spec == Init /\ [][Next]_vars

---------------------------------------------------------------------------
(* Execution of a SystemOperation.  The executor is not part of the planner *)
(* crate; it is written here from the description of the steps and of       *)
(* skip_steps_if: a CheckExistence observes whether its object exists; when  *)
(* skip_steps_if is Some of the observed state the sub-program is skipped as *)
(* a no-op; when the observed state is not the one the operation needs the   *)
(* operation ends with ObjectAlreadyExists or ObjectDoesNotExist; the other  *)
(* steps act on the catalog records and on the folders and files.            *)

ExecTableNames == {"table"}

ExecFullTableNames == {FullTableName(s, t) : s \in SchemaNames, t \in ExecTableNames}

ExecColumnLists ==
    { <<>>,
      << ColumnInfo("col_1", small_int) >>,
      << ColumnInfo("col_1", small_int), ColumnInfo("col_2", big_int) >> }

\* the statements a session sends
ExecChanges ==
    {CreateSchema(n, f) : n \in SchemaNames, f \in BOOLEAN}
    \cup {DropSchemas(ns, c, f) : ns \in SeqUpTo(SchemaNames, MaxNames),
                                   c \in BOOLEAN, f \in BOOLEAN}
    \cup {CreateTable(t, cols, f) : t \in ExecFullTableNames, cols \in ExecColumnLists,
                                     f \in BOOLEAN}
    \cup {DropTables(ts, c, f) : ts \in SeqUpTo(ExecFullTableNames, MaxNames),
                                  c \in BOOLEAN, f \in BOOLEAN}

Err(error, system_object, object_name) ==
    [ok |-> FALSE, error |-> error, system_object |-> system_object,
     object_name |-> object_name]

\* what a CheckExistence step observes
Observe(cat, st) ==
    IF st.system_object = Schema
    THEN IF st.object_name[1] \in cat.schemas THEN Exists ELSE NotExists
    ELSE IF <<st.object_name[1], st.object_name[2]>> \in cat.tables
         THEN Exists ELSE NotExists

\* the state the operation needs the checked object to be in: absent for the
\* object a Create creates, present otherwise (the parent schema of a table, the
\* object a Drop removes)
Required(kind, st) ==
    IF kind.op = "Create" /\ st.system_object = kind.object THEN NotExists ELSE Exists

TablesOf(cat, schema_name) == {f \in cat.tables : schema(f) = schema_name}

FilesOf(cat, folder_name) == {f \in cat.files : schema(f) = folder_name}

\* the effect of a step that is not a check
Apply(cat, st) ==
    CASE st.step = "CreateFolder" ->
            [cat EXCEPT !.folders = @ \cup {st.name}]
      [] st.step = "RemoveFolder" ->
            IF st.only_if_empty /\ FilesOf(cat, st.name) # {} THEN cat
            ELSE [cat EXCEPT !.folders = @ \ {st.name},
                             !.files = @ \ FilesOf(cat, st.name)]
      [] st.step = "CreateFile" ->
            [cat EXCEPT !.files = @ \cup {<<st.folder_name, st.name>>}]
      [] st.step = "RemoveFile" ->
            [cat EXCEPT !.files = @ \ {<<st.folder_name, st.name>>}]
      [] st.step = "RemoveColumns" ->
            [cat EXCEPT !.columns[<<st.schema_name, st.table_name>>] = <<>>]
      [] st.step = "RemoveDependants" ->
            [cat EXCEPT !.tables = @ \ TablesOf(cat, st.object_name[1]),
                        !.files = @ \ {f \in cat.files : f \in TablesOf(cat, st.object_name[1])},
                        !.columns = [f \in DOMAIN @ |->
                                        IF f \in TablesOf(cat, st.object_name[1])
                                        THEN <<>> ELSE @[f]]]
      [] st.step = "CreateRecord" /\ st.record.record = "Schema" ->
            [cat EXCEPT !.schemas = @ \cup {st.record.schema_name}]
      [] st.step = "CreateRecord" /\ st.record.record = "Table" ->
            [cat EXCEPT !.tables = @ \cup {<<st.record.schema_name, st.record.table_name>>}]
      [] st.step = "CreateRecord" /\ st.record.record = "Column" ->
            [cat EXCEPT !.columns[<<st.record.schema_name, st.record.table_name>>] =
                Append(@, ColumnInfo(st.record.column_name, st.record.sql_type))]
      [] st.step = "RemoveRecord" /\ st.record.record = "Schema" ->
            [cat EXCEPT !.schemas = @ \ {st.record.schema_name}]
      [] st.step = "RemoveRecord" /\ st.record.record = "Table" ->
            [cat EXCEPT !.tables = @ \ {<<st.record.schema_name, st.record.table_name>>}]

NoChange == DropSchemas(<<>>, FALSE, FALSE)

ExecInit ==
    /\ change = NoChange
    /\ plan = NoPlan
    /\ pc = "idle"
    /\ sub = 1
    /\ ip = 1
    /\ catalog = EmptyCatalog
    /\ before = EmptyCatalog
    /\ outcome = Ok
    /\ again = FALSE
    /\ call = NoCall
    /\ ret = NoRet

Running == pc = "running" /\ sub <= Len(plan.steps)

CurrentStep == plan.steps[sub][ip]

\* on to the next step, or to the next sub-program after the last step
Advance ==
    IF ip = Len(plan.steps[sub])
    THEN sub' = sub + 1 /\ ip' = 1
    ELSE sub' = sub /\ ip' = ip + 1

\* a statement arrives: it is planned and its plan starts executing
Submit ==
    /\ pc = "idle"
    /\ \E c \in ExecChanges :
        /\ change' = c
        /\ plan' = schema_change_plan(c)
    /\ pc' = "running"
    /\ sub' = 1
    /\ ip' = 1
    /\ before' = catalog
    /\ outcome' = Ok
    /\ again' = FALSE
    /\ UNCHANGED <<catalog, call, ret>>

\* the same statement is sent once more, right after it ended
Resubmit ==
    /\ pc = "done"
    /\ pc' = "running"
    /\ sub' = 1
    /\ ip' = 1
    /\ before' = catalog
    /\ outcome' = Ok
    /\ again' = TRUE
    /\ UNCHANGED <<change, plan, catalog, call, ret>>

ExecCheckExistence ==
    /\ Running
    /\ CurrentStep.step = "CheckExistence"
    /\ LET observed == Observe(catalog, CurrentStep)
       IN  IF plan.skip_steps_if = Some(observed)
           THEN \* the rest of the sub-program is skipped
                /\ sub' = sub + 1
                /\ ip' = 1
                /\ UNCHANGED <<pc, outcome>>
           ELSE IF observed # Required(plan.kind, CurrentStep)
           THEN /\ outcome' = Err(IF observed = Exists THEN "ObjectAlreadyExists"
                                                       ELSE "ObjectDoesNotExist",
                                  CurrentStep.system_object, CurrentStep.object_name)
                /\ pc' = "done"
                /\ UNCHANGED <<sub, ip>>
           ELSE /\ Advance
                /\ UNCHANGED <<pc, outcome>>
    /\ UNCHANGED <<change, plan, catalog, before, again, call, ret>>

ExecCheckDependants ==
    /\ Running
    /\ CurrentStep.step = "CheckDependants"
    /\ IF TablesOf(catalog, CurrentStep.object_name[1]) # {}
       THEN /\ outcome' = Err("HasDependants", CurrentStep.system_object,
                              CurrentStep.object_name)
            /\ pc' = "done"
            /\ UNCHANGED <<sub, ip>>
       ELSE /\ Advance
            /\ UNCHANGED <<pc, outcome>>
    /\ UNCHANGED <<change, plan, catalog, before, again, call, ret>>

ExecMutation ==
    /\ Running
    /\ CurrentStep.step \notin {"CheckExistence", "CheckDependants"}
    /\ catalog' = Apply(catalog, CurrentStep)
    /\ Advance
    /\ UNCHANGED <<change, plan, pc, before, outcome, again, call, ret>>

\* every sub-program has been executed or skipped
Finish ==
    /\ pc = "running"
    /\ sub > Len(plan.steps)
    /\ pc' = "done"
    /\ UNCHANGED <<change, plan, sub, ip, catalog, before, outcome, again, call, ret>>

\* the outcome is handed back and the session waits for the next statement
Return ==
    /\ pc = "done"
    /\ pc' = "idle"
    /\ change' = NoChange
    /\ plan' = NoPlan
    /\ sub' = 1
    /\ ip' = 1
    /\ before' = catalog
    /\ outcome' = Ok
    /\ again' = FALSE
    /\ UNCHANGED <<catalog, call, ret>>

ExecNext ==
    \/ Submit
    \/ Resubmit
    \/ ExecCheckExistence
    \/ ExecCheckDependants
    \/ ExecMutation
    \/ Finish
    \/ Return

ExecSpec == ExecInit /\ [][ExecNext]_vars

---------------------------------------------------------------------------
(* Properties of the plan, read in the state Plan leaves. *)

Planned == pc = "planned"

IsSchemaChange == change.tag \in {"CreateSchema", "DropSchemas"}

IsCreate == change.tag \in {"CreateSchema", "CreateTable"}

\* the objects the intent names, in the order it names them: a schema is named
\* by <<schema>>, a table by <<schema, table>>
Targets ==
    CASE change.tag = "CreateSchema" -> << <<change.schema_name>> >>
      [] change.tag = "DropSchemas"  ->
            [i \in 1..Len(change.schema_names) |-> <<change.schema_names[i]>>]
      [] change.tag = "CreateTable"  -> << change.full_table_name >>
      [] change.tag = "DropTables"   -> change.full_table_names

TargetObject == IF IsSchemaChange THEN Schema ELSE Table

\* the IF NOT EXISTS flag of a create, the IF EXISTS flag of a drop
Flag == IF IsCreate THEN change.if_not_exists ELSE change.if_exists

Flipped ==
    IF IsCreate THEN [change EXCEPT !.if_not_exists = ~@]
                ELSE [change EXCEPT !.if_exists = ~@]

StepTags(program) == [i \in 1..Len(program) |-> program[i].step]

\* every name a step mentions, as a list of identifiers
StepNames(st) ==
    CASE st.step \in {"CheckExistence", "CheckDependants", "RemoveDependants"} ->
            st.object_name
      [] st.step \in {"CreateFolder", "RemoveFolder"} -> <<st.name>>
      [] st.step \in {"CreateFile", "RemoveFile"} -> <<st.folder_name, st.name>>
      [] st.step = "RemoveColumns" -> <<st.schema_name, st.table_name>>
      [] st.step \in {"CreateRecord", "RemoveRecord"} ->
            IF st.record.record = "Schema" THEN <<st.record.schema_name>>
            ELSE <<st.record.schema_name, st.record.table_name>>

\* C1 as stated: for every SchemaChange the plan has at least one sub-program,
\* every sub-program starts with a CheckExistence, and that first
\* CheckExistence names the sub-program's own target (the schema of a schema
\* change, the table of a table change).
C1_FirstCheckIsTarget ==
    Planned =>
        /\ Len(plan.steps) >= 1
        /\ \A i \in 1..Len(plan.steps) :
            /\ Len(plan.steps[i]) >= 1
            /\ plan.steps[i][1] = CheckExistence(TargetObject, Targets[i])

\* C1 amended: the plan has one sub-program per named object (so it is empty
\* exactly when a drop names no object), every sub-program starts with a
\* CheckExistence, which names the target schema of a schema change and the
\* parent schema of a table change; for a table change the second step is the
\* CheckExistence of the target table.
C1_FirstCheck ==
    Planned =>
        /\ Len(plan.steps) = Len(Targets)
        /\ \A i \in 1..Len(plan.steps) :
            /\ Len(plan.steps[i]) >= 2
            /\ plan.steps[i][1] = CheckExistence(Schema, <<Targets[i][1]>>)
            /\ ~IsSchemaChange => plan.steps[i][2] = CheckExistence(Table, Targets[i])

C1_Witness ==
    /\ Planned
    /\ change.tag = "DropTables"
    /\ Len(change.full_table_names) = 2
    /\ plan.steps[2][1].step = "CheckExistence"
    /\ plan.steps[2][1].system_object = Schema
    /\ plan.steps[2][2].system_object = Table

\* C2: every sub-program of DropSchemas{names, cascade = c} is the four steps
\* CheckExistence, D, RemoveRecord, RemoveFolder{only_if_empty = ~c} on that
\* schema, D being RemoveDependants iff c and CheckDependants otherwise; no
\* sub-program has both dependants steps, nor RemoveDependants with
\* only_if_empty = TRUE.
C2_DropSchemasProgram ==
    (Planned /\ change.tag = "DropSchemas") =>
        \A i \in 1..Len(plan.steps) :
            LET program == plan.steps[i]
                n == change.schema_names[i]
                tags == {program[j].step : j \in 1..Len(program)}
            IN  /\ Len(program) = 4
                /\ program[1] = CheckExistence(Schema, <<n>>)
                /\ program[2].step = "RemoveDependants" <=> change.cascade
                /\ program[2].step = "CheckDependants" <=> ~change.cascade
                /\ program[2].system_object = Schema
                /\ program[2].object_name = <<n>>
                /\ program[3] = RemoveRecord(SchemaRecord(n))
                /\ program[4].step = "RemoveFolder"
                /\ program[4].name = n
                /\ program[4].only_if_empty = ~change.cascade
                /\ ~({"RemoveDependants", "CheckDependants"} \subseteq tags)
                /\ ~("RemoveDependants" \in tags /\ program[4].only_if_empty)

C2_Witness ==
    /\ Planned
    /\ change.tag = "DropSchemas"
    /\ change.cascade
    /\ Len(change.schema_names) = 2
    /\ plan.steps[2][2].step = "RemoveDependants"
    /\ plan.steps[2][4].only_if_empty = FALSE

\* C3: the single sub-program of CreateTable{cols} is CheckExistence(Schema),
\* CheckExistence(Table), CreateFile, CreateRecord(Table) and then exactly
\* Len(cols) CreateRecord(Column) steps, the i-th with the name and the type
\* of cols[i]; no Column record comes before the Table record.
C3_CreateTableProgram ==
    (Planned /\ change.tag = "CreateTable") =>
        LET s == schema(change.full_table_name)
            t == table(change.full_table_name)
            cols == change.column_defs
        IN  /\ Len(plan.steps) = 1
            /\ Len(plan.steps[1]) = 4 + Len(cols)
            /\ SubSeq(plan.steps[1], 1, 4) =
                   << CheckExistence(Schema, <<s>>), CheckExistence(Table, <<s, t>>),
                      CreateFile(s, t), CreateRecord(TableRecord(s, t)) >>
            /\ \A i \in 1..Len(cols) :
                   /\ plan.steps[1][4 + i].step = "CreateRecord"
                   /\ plan.steps[1][4 + i].record.record = "Column"
                   /\ plan.steps[1][4 + i].record.schema_name = s
                   /\ plan.steps[1][4 + i].record.table_name = t
                   /\ plan.steps[1][4 + i].record.column_name = cols[i].name
                   /\ plan.steps[1][4 + i].record.sql_type = cols[i].sql_type

C3_Witness ==
    /\ Planned
    /\ change.tag = "CreateTable"
    /\ Len(change.column_defs) = 2
    /\ change.column_defs[1].name = change.column_defs[2].name
    /\ change.column_defs[1].sql_type # change.column_defs[2].sql_type
    /\ Len(plan.steps[1]) = 6

\* C4: a drop of k names has exactly k sub-programs and the i-th sub-program
\* names the i-th input object and nothing else (for a table, also its
\* schema), whatever the flags.
C4_DropOrder ==
    (Planned /\ change.tag \in {"DropSchemas", "DropTables"}) =>
        /\ Len(plan.steps) = Len(Targets)
        /\ \A i \in 1..Len(plan.steps) : \A j \in 1..Len(plan.steps[i]) :
               LET names == StepNames(plan.steps[i][j])
               IN  \/ names = Targets[i]
                   \/ /\ change.tag = "DropTables"
                      /\ names = <<schema(Targets[i])>>
        /\ \A i \in 1..Len(plan.steps) :
               \E j \in 1..Len(plan.steps[i]) : StepNames(plan.steps[i][j]) = Targets[i]

C4_Witness ==
    /\ Planned
    /\ change.tag = "DropSchemas"
    /\ Len(change.schema_names) = 2
    /\ change.schema_names[1] # change.schema_names[2]
    /\ plan.steps[1][1].object_name = <<change.schema_names[1]>>
    /\ plan.steps[2][1].object_name = <<change.schema_names[2]>>

\* C5: every DropTables sub-program is the five steps CheckExistence(Schema),
\* CheckExistence(Table), RemoveColumns, RemoveRecord(Table), RemoveFile on its
\* table, in that order.
C5_DropTablesProgram ==
    (Planned /\ change.tag = "DropTables") =>
        \A i \in 1..Len(plan.steps) :
            LET s == schema(change.full_table_names[i])
                t == table(change.full_table_names[i])
                program == plan.steps[i]
                at(tag) == CHOOSE j \in 1..Len(program) : program[j].step = tag
            IN  /\ program = << CheckExistence(Schema, <<s>>),
                                CheckExistence(Table, <<s, t>>),
                                RemoveColumns(s, t),
                                RemoveRecord(TableRecord(s, t)),
                                RemoveFile(s, t) >>
                /\ at("RemoveColumns") < at("RemoveRecord")
                /\ at("RemoveFile") = Len(program)

C5_Witness ==
    /\ Planned
    /\ change.tag = "DropTables"
    /\ Len(change.full_table_names) = 2
    /\ plan.steps[2][3].step = "RemoveColumns"
    /\ plan.steps[2][5].step = "RemoveFile"

\* C6: the IF [NOT] EXISTS flag decides skip_steps_if and nothing else: a
\* create carries Some(Exists) when the flag is set, a drop Some(NotExists),
\* both None when it is not, and the intent with the flag flipped has the same
\* kind and the same steps.
C6_FlagOnlySkips ==
    Planned =>
        /\ plan.skip_steps_if =
               IF ~Flag THEN None ELSE IF IsCreate THEN Some(Exists) ELSE Some(NotExists)
        /\ IsCreate => plan.skip_steps_if # Some(NotExists)
        /\ ~IsCreate => plan.skip_steps_if # Some(Exists)
        /\ schema_change_plan(Flipped).kind = plan.kind
        /\ schema_change_plan(Flipped).steps = plan.steps
        /\ schema_change_plan(Flipped).skip_steps_if # plan.skip_steps_if

C6_Witness ==
    /\ Planned
    /\ change.tag = "DropTables"
    /\ change.if_exists
    /\ Len(change.full_table_names) = 2
    /\ plan.skip_steps_if = Some(NotExists)

\* C7: the plan of DropTables does not depend on cascade: the intent with
\* cascade flipped has the same plan, and no step is a CheckDependants or a
\* RemoveDependants.
C7_DropTablesIgnoresCascade ==
    (Planned /\ change.tag = "DropTables") =>
        /\ schema_change_plan([change EXCEPT !.cascade = ~@]) = plan
        /\ \A i \in 1..Len(plan.steps) : \A j \in 1..Len(plan.steps[i]) :
               plan.steps[i][j].step \notin {"CheckDependants", "RemoveDependants"}

C7_Witness ==
    /\ Planned
    /\ change.tag = "DropTables"
    /\ change.cascade
    /\ Len(change.full_table_names) = 2
    /\ Len(plan.steps[2]) = 5

---------------------------------------------------------------------------
(* Properties of the execution of a plan, step by step. *)

IsCheck(st) == st.step \in {"CheckExistence", "CheckDependants"}

\* every catalog record has its storage: a schema record its folder, a table
\* record its file, a column row its table record
RecordsHaveStorage(cat) ==
    /\ \A n \in cat.schemas : n \in cat.folders
    /\ \A f \in cat.tables : f \in cat.files
    /\ \A f \in DOMAIN cat.columns : cat.columns[f] # <<>> => f \in cat.tables

\* C8: after every single step of every sub-program (so wherever execution
\* stops), a catalog record that is present has its folder or file: a Create
\* made the storage before the record, a Drop removed the records (column rows,
\* then table or schema record) before the storage; and once a step that
\* changes something has run, no CheckExistence is left in the sub-program.
C8_SafeLinearization ==
    /\ RecordsHaveStorage(catalog)
    /\ Running =>
           \A i \in 1..(ip - 1) : \A j \in ip..Len(plan.steps[sub]) :
               ~IsCheck(plan.steps[sub][i]) => plan.steps[sub][j].step # "CheckExistence"

\* a DROP TABLE stopped between its last two steps: rows and record are gone,
\* the file is still there
C8_Witness ==
    /\ Running
    /\ change.tag = "DropTables"
    /\ ip = 5
    /\ CurrentStep.step = "RemoveFile"
    /\ change.full_table_names[sub] \in before.tables
    /\ before.columns[change.full_table_names[sub]] # <<>>
    /\ change.full_table_names[sub] \notin catalog.tables
    /\ catalog.columns[change.full_table_names[sub]] = <<>>
    /\ change.full_table_names[sub] \in catalog.files

\* the skip condition the statement asks for: IF NOT EXISTS skips what exists,
\* IF EXISTS skips what does not
IntendedSkip ==
    IF ~Flag THEN None ELSE IF IsCreate THEN Some(Exists) ELSE Some(NotExists)

\* execution stands at a CheckExistence that does not observe the state the
\* operation needs
FailedCheck ==
    /\ Running
    /\ CurrentStep.step = "CheckExistence"
    /\ Observe(catalog, CurrentStep) # Required(plan.kind, CurrentStep)

\* C9: when a CheckExistence fails and the statement's IF [NOT] EXISTS asks to
\* skip the observed state, the sub-program is skipped: nothing changes, no
\* error, execution goes on with the next sub-program; when the statement has
\* no IF [NOT] EXISTS the operation ends there with ObjectAlreadyExists or
\* ObjectDoesNotExist and nothing changes; and a statement with IF [NOT]
\* EXISTS executed a second time in a row leaves the state the first left.
C9_SkipOrFail ==
    /\ [][FailedCheck =>
             /\ catalog' = catalog
             /\ IntendedSkip = Some(Observe(catalog, CurrentStep)) =>
                    /\ pc' = "running"
                    /\ sub' = sub + 1
                    /\ ip' = 1
                    /\ outcome' = Ok
             /\ IntendedSkip = None =>
                    /\ pc' = "done"
                    /\ outcome' = Err(IF Observe(catalog, CurrentStep) = Exists
                                      THEN "ObjectAlreadyExists" ELSE "ObjectDoesNotExist",
                                      CurrentStep.system_object, CurrentStep.object_name)]_vars
    /\ [](pc = "done" /\ again /\ Flag => catalog = before)

\* DROP SCHEMA IF EXISTS a, b with a missing and b present: the first
\* sub-program was skipped and the second removed b
C9_Witness ==
    /\ pc = "done"
    /\ change.tag = "DropSchemas"
    /\ change.if_exists
    /\ Len(change.schema_names) = 2
    /\ change.schema_names[1] \notin before.schemas
    /\ change.schema_names[2] \in before.schemas
    /\ change.schema_names[2] \notin catalog.schemas
    /\ outcome = Ok

\* C10 as stated: CREATE TABLE IF NOT EXISTS, executed where the parent schema
\* exists, creates the table (file, table record, column rows) when the table
\* is absent and changes nothing, without an error, when it is present.
C10_CreateTableIfNotExists ==
    (/\ pc = "done"
     /\ change.tag = "CreateTable"
     /\ change.if_not_exists
     /\ schema(change.full_table_name) \in before.schemas) =>
        /\ outcome = Ok
        /\ IF change.full_table_name \in before.tables
           THEN catalog = before
           ELSE /\ change.full_table_name \in catalog.files
                /\ change.full_table_name \in catalog.tables
                /\ catalog.columns[change.full_table_name] = change.column_defs

---------------------------------------------------------------------------
(* entities/types: SqlType, its numeric ids, and the comparison of          *)
(* SqlTypeFamily values.                                                    *)

\* longest character length of a CHAR / VARCHAR type
MaxLen == 3

Lens == 0..MaxLen

\* an id from_type_id does not enumerate
UnknownTypeId == 8

TypeIds == 0..UnknownTypeId

integer == [tag |-> "Num", num |-> "Integer"]

real == [tag |-> "Num", num |-> "Real"]

double_precision == [tag |-> "Num", num |-> "Double"]

bool == [tag |-> "Bool"]

char(len) == [tag |-> "Str", len |-> len, kind |-> "Const"]

var_char(len) == [tag |-> "Str", len |-> len, kind |-> "Var"]

\* every SqlType value with a length in Lens
AllSqlTypes ==
    {bool, small_int, integer, big_int, real, double_precision}
    \cup {char(n) : n \in Lens} \cup {var_char(n) : n \in Lens}

type_id(self) ==
    CASE self.tag = "Bool" -> 0
      [] self.tag = "Str" /\ self.kind = "Const" -> 1
      [] self.tag = "Str" /\ self.kind = "Var" -> 2
      [] self.tag = "Num" /\ self.num = "SmallInt" -> 3
      [] self.tag = "Num" /\ self.num = "Integer" -> 4
      [] self.tag = "Num" /\ self.num = "BigInt" -> 5
      [] self.tag = "Num" /\ self.num = "Real" -> 6
      [] self.tag = "Num" /\ self.num = "Double" -> 7

\* from_type_id that forgets the length of a string type
from_type_id_NoLen(id, chars_len) ==
    CASE id = 0 -> bool
      [] id = 1 -> char(0)
      [] id = 2 -> var_char(0)
      [] id = 3 -> small_int
      [] id = 4 -> integer
      [] id = 5 -> big_int
      [] id = 6 -> real
      [] id = 7 -> double_precision
      [] OTHER -> Panicked

from_type_id(id, chars_len) ==
    CASE id = 0 -> bool
      [] id = 1 -> char(chars_len)
      [] id = 2 -> var_char(chars_len)
      [] id = 3 -> small_int
      [] id = 4 -> integer
      [] id = 5 -> big_int
      [] id = 6 -> real
      [] id = 7 -> double_precision
      [] OTHER -> Panicked  \* unreachable!()

chars_len(self) == IF self.tag = "Str" THEN Some(self.len) ELSE None

unwrap_or(option, default) == IF option = None THEN default ELSE option[1]

SqlTypeFamilies == {"Bool", "String", "SmallInt", "Integer", "BigInt", "Real", "Double"}

IncomparableSqlTypeFamilies(left, right) ==
    [error |-> "IncomparableSqlTypeFamilies", left |-> left, right |-> right]

is_float(self) == self = "Real" \/ self = "Double"

is_int(self) == self = "SmallInt" \/ self = "Integer" \/ self = "BigInt"

\* compare that keeps self whenever the two families differ
compare_KeepSelf(self, other) ==
    IF (is_float(self) \/ is_int(self)) /\ (is_float(other) \/ is_int(other))
    THEN OkOf(self)
    ELSE IF self # other
    THEN ErrOf(IncomparableSqlTypeFamilies(self, other))
    ELSE OkOf(self)

\* compare with the integer condition read as  SmallInt && (Integer || BigInt)
compare_Parenthesised(self, other) ==
    IF is_float(self) /\ is_float(other)
    THEN IF self = other THEN OkOf(self)
         ELSE IF self = "Real" /\ other = "Double" THEN OkOf(other)
         ELSE OkOf(self)
    ELSE IF is_int(self) /\ is_int(other)
    THEN IF self = other THEN OkOf(self)
         ELSE IF self = "SmallInt" /\ (other = "Integer" \/ other = "BigInt")
         THEN OkOf(other)
         ELSE OkOf(self)
    ELSE IF is_float(self) /\ is_int(other) THEN OkOf(self)
    ELSE IF is_int(self) /\ is_float(other) THEN OkOf(other)
    ELSE IF self # other
    THEN ErrOf(IncomparableSqlTypeFamilies(self, other))
    ELSE OkOf(self)

compare(self, other) ==
    IF is_float(self) /\ is_float(other)
    THEN IF self = other THEN OkOf(self)
         ELSE IF self = "Real" /\ other = "Double" THEN OkOf(other)
         ELSE OkOf(self)
    ELSE IF is_int(self) /\ is_int(other)
    THEN IF self = other THEN OkOf(self)
         \* && binds tighter than ||
         ELSE IF (self = "SmallInt" /\ other = "Integer") \/ other = "BigInt"
         THEN OkOf(other)
         ELSE OkOf(self)
    ELSE IF is_float(self) /\ is_int(other) THEN OkOf(self)
    ELSE IF is_int(self) /\ is_float(other) THEN OkOf(other)
    ELSE IF self # other
    THEN ErrOf(IncomparableSqlTypeFamilies(self, other))
    ELSE OkOf(self)

\* the calls made on the types crate
\* family that keeps the width of a number
family_KeepWidth(self) ==
    CASE self.tag = "Bool" -> "Bool"
      [] self.tag = "Str" -> "String"
      [] self.tag = "Num" -> self.num

\* SqlType::family
family(self) ==
    CASE self.tag = "Bool" -> "Bool"
      [] self.tag = "Str" -> "String"
      [] self.tag = "Num" /\ self.num \in {"SmallInt", "Integer", "BigInt"} -> "Integer"
      [] self.tag = "Num" /\ self.num \in {"Real", "Double"} -> "Real"

\* compare applied to the result of a compare that succeeded; the error of
\* the first compare otherwise
and_then_compare(result, other) ==
    IF result.ok THEN compare(result.value, other) ELSE result

TypeCalls ==
    {[fn |-> "type_id", self |-> t] : t \in AllSqlTypes}
    \cup {[fn |-> "family", self |-> s, other |-> t] :
            s \in AllSqlTypes, t \in AllSqlTypes}
    \cup {[fn |-> "chain", a |-> a, b |-> b, c |-> c] :
            a \in SqlTypeFamilies, b \in SqlTypeFamilies, c \in SqlTypeFamilies}
    \cup {[fn |-> "from_type_id", type_id |-> i, chars_len |-> n] :
            i \in TypeIds, n \in Lens}
    \cup {[fn |-> "compare", self |-> a, other |-> b] :
            a \in SqlTypeFamilies, b \in SqlTypeFamilies}

TypeInit ==
    /\ change = NoChange
    /\ plan = NoPlan
    /\ pc = "idle"
    /\ sub = 1
    /\ ip = 1
    /\ catalog = EmptyCatalog
    /\ before = EmptyCatalog
    /\ outcome = Ok
    /\ again = FALSE
    /\ call \in TypeCalls
    /\ ret = NoRet

TypeFrame == UNCHANGED <<change, plan, sub, ip, catalog, before, outcome, again, call>>

\* a type is written to the catalog: t.type_id() and t.chars_len().unwrap_or(0)
TypeId ==
    /\ pc = "idle"
    /\ call.fn = "type_id"
    /\ ret' = [type_id |-> type_id(call.self),
               chars_len |-> unwrap_or(chars_len(call.self), 0)]
    /\ pc' = "encoded"
    /\ TypeFrame

\* and read back: SqlType::from_type_id(type_id, chars_len)
ReadBack ==
    /\ pc = "encoded"
    /\ ret' = from_type_id(ret.type_id, ret.chars_len)
    /\ pc' = "returned"
    /\ TypeFrame

\* SqlType::from_type_id called on an id and a length of the caller's choice
FromTypeId ==
    /\ pc = "idle"
    /\ call.fn = "from_type_id"
    /\ ret' = from_type_id(call.type_id, call.chars_len)
    /\ pc' = "returned"
    /\ TypeFrame

Compare ==
    /\ pc = "idle"
    /\ call.fn = "compare"
    /\ ret' = compare(call.self, call.other)
    /\ pc' = "returned"
    /\ TypeFrame

\* s.family().compare(&t.family())
CompareFamilies ==
    /\ pc = "idle"
    /\ call.fn = "family"
    /\ ret' = compare(family(call.self), family(call.other))
    /\ pc' = "returned"
    /\ TypeFrame

\* three families compared in both groupings: compare(compare(a, b), c) and
\* compare(a, compare(b, c))
CompareChain ==
    /\ pc = "idle"
    /\ call.fn = "chain"
    /\ ret' = [left |-> and_then_compare(compare(call.a, call.b), call.c),
               right |-> LET inner == compare(call.b, call.c)
                         IN  IF inner.ok THEN compare(call.a, inner.value) ELSE inner]
    /\ pc' = "returned"
    /\ TypeFrame

TypeNext ==
    \/ TypeId
    \/ ReadBack
    \/ FromTypeId
    \/ Compare
    \/ CompareFamilies
    \/ CompareChain

TypeSpec == TypeInit /\ [][TypeNext]_vars

---------------------------------------------------------------------------
(* Properties of the types crate. *)

Returned(fn) == pc = "returned" /\ call.fn = fn

\* C11: every SqlType has an id in 0..7, and from_type_id of that id and of
\* chars_len().unwrap_or(0) gives the type back; for the ids of the types that
\* are not strings the length handed to from_type_id does not matter.
C11_TypeIdRoundTrip ==
    /\ (pc = "encoded" /\ call.fn = "type_id") => ret.type_id \in 0..7
    /\ Returned("type_id") => ret = call.self
    /\ (Returned("from_type_id") /\ call.type_id \in 0..7 \ {1, 2}) =>
            \A n \in Lens : ret = from_type_id(call.type_id, n)

C11_Witness ==
    /\ Returned("type_id")
    /\ call.self.tag = "Str"
    /\ call.self.len > 0
    /\ ret = call.self

\* C12: compare(a, b) succeeds exactly when compare(b, a) does; when both
\* succeed they return the same family, and it is a or b.
C12_CompareSymmetric ==
    Returned("compare") =>
        LET flipped == compare(call.other, call.self)
        IN  /\ ret.ok = flipped.ok
            /\ ret.ok => /\ ret = flipped
                         /\ ret.value \in {call.self, call.other}

C12_Witness ==
    /\ Returned("compare")
    /\ call.self = "Real"
    /\ call.other = "Double"
    /\ ret = OkOf("Double")

\* the order of the numeric families: SmallInt < Integer < BigInt < Real < Double
Rank(f) ==
    CASE f = "SmallInt" -> 1
      [] f = "Integer" -> 2
      [] f = "BigInt" -> 3
      [] f = "Real" -> 4
      [] f = "Double" -> 5

IsNumeric(f) == f \in {"SmallInt", "Integer", "BigInt", "Real", "Double"}

\* C13: for each of the 49 pairs compare returns the dominant family (Double
\* over Real, BigInt over Integer over SmallInt, the float family when floats
\* and integers are mixed, self when both are equal), and it fails, with
\* IncomparableSqlTypeFamilies{left = a, right = b}, exactly when a # b and at
\* least one of them is Bool or String.
C13_CompareDominant ==
    Returned("compare") =>
        LET a == call.self
            b == call.other
        IN  IF a # b /\ (~IsNumeric(a) \/ ~IsNumeric(b))
            THEN ret = ErrOf(IncomparableSqlTypeFamilies(a, b))
            ELSE IF a = b THEN ret = OkOf(a)
            ELSE ret = OkOf(IF Rank(a) > Rank(b) THEN a ELSE b)

C13_Witness ==
    /\ Returned("compare")
    /\ call.self = "Integer"
    /\ call.other = "BigInt"
    /\ ret = OkOf("BigInt")

---------------------------------------------------------------------------
(* entities/definition: SchemaName and FullTableName built from a parsed    *)
(* sql_ast::ObjectName or from strings.  A String is the sequence of its    *)
(* characters; identifiers are unquoted, so that the Display of an          *)
(* ObjectName is its identifiers joined by dots.                            *)

\* most segments in an ObjectName
MaxSegments == 3

UpperCase == <<"A", "B", "C", "D", "E", "F", "G", "H", "I", "J", "K", "L", "M",
               "N", "O", "P", "Q", "R", "S", "T", "U", "V", "W", "X", "Y", "Z">>

LowerCase == <<"a", "b", "c", "d", "e", "f", "g", "h", "i", "j", "k", "l", "m",
               "n", "o", "p", "q", "r", "s", "t", "u", "v", "w", "x", "y", "z">>

to_lowercase_char(c) ==
    IF \E i \in DOMAIN UpperCase : UpperCase[i] = c
    THEN LowerCase[CHOOSE i \in DOMAIN UpperCase : UpperCase[i] = c]
    ELSE c

\* str::to_lowercase
to_lowercase(string) == [i \in DOMAIN string |-> to_lowercase_char(string[i])]

\* the literal "public"
public == <<"p", "u", "b", "l", "i", "c">>

\* the identifiers statements are written with
IdentValues ==
    { public,
      <<"P", "u", "b", "l", "i", "c">>,
      <<"s", "c", "h">>,
      <<"S", "C", "H">>,
      <<"t", "_", "1">>,
      <<"T", "_", "1">> }

\* sql_ast::Ident
Ident(value) == [value |-> value]

\* sql_ast::ObjectName(Vec<Ident>)
ObjectNames == SeqUpTo({Ident(v) : v \in IdentValues}, MaxSegments)

RECURSIVE to_string(_)
\* Display of an ObjectName: the identifiers separated by "."
to_string(object) ==
    IF Len(object) = 0 THEN <<>>
    ELSE IF Len(object) = 1 THEN object[1].value
    ELSE object[1].value \o <<".">> \o to_string(Tail(object))

TableNamingError(name) == [error |-> "TableNamingError", name |-> name]

SchemaNamingError(name) == [error |-> "SchemaNamingError", name |-> name]

SchemaName(name) == name

\* try_from that keeps the table name as it was written
FullTableName_try_from_AsWritten(object) ==
    IF Len(object) > 2
    THEN ErrOf(TableNamingError(to_string(object)))
    ELSE IF Len(object) = 0
    THEN Panicked
    ELSE IF Len(object) = 1
    THEN OkOf(FullTableName(to_lowercase(public), object[1].value))
    ELSE OkOf(FullTableName(to_lowercase(object[1].value), object[Len(object)].value))

\* try_from that rejects a name only from four segments on
FullTableName_try_from_ThreeSegments(object) ==
    IF Len(object) > 3
    THEN ErrOf(TableNamingError(to_string(object)))
    ELSE IF Len(object) = 0
    THEN Panicked
    ELSE IF Len(object) = 1
    THEN OkOf(FullTableName(to_lowercase(public), to_lowercase(object[1].value)))
    ELSE OkOf(FullTableName(to_lowercase(object[1].value),
                            to_lowercase(object[Len(object)].value)))

\* try_from that puts an unqualified table into a schema named after the table
FullTableName_try_from_OwnSchema(object) ==
    IF Len(object) > 2
    THEN ErrOf(TableNamingError(to_string(object)))
    ELSE IF Len(object) = 0
    THEN Panicked
    ELSE OkOf(FullTableName(to_lowercase(object[1].value),
                            to_lowercase(object[Len(object)].value)))

\* impl TryFrom<&ObjectName> for FullTableName
FullTableName_try_from(object) ==
    IF Len(object) > 2
    THEN ErrOf(TableNamingError(to_string(object)))
    ELSE IF Len(object) = 0
    THEN Panicked  \* object.0.first().unwrap() on an empty Vec
    ELSE IF Len(object) = 1
    THEN OkOf(FullTableName(to_lowercase(public), to_lowercase(object[1].value)))
    ELSE OkOf(FullTableName(to_lowercase(object[1].value),
                            to_lowercase(object[Len(object)].value)))

\* impl From<(&S, &S)> for FullTableName
FullTableName_from(schema_name, table_name) == FullTableName(schema_name, table_name)

\* impl TryFrom<&ObjectName> for SchemaName
SchemaName_try_from(object) ==
    IF Len(object) # 1
    THEN ErrOf(SchemaNamingError(to_string(object)))
    ELSE OkOf(SchemaName(to_lowercase(to_string(object))))

\* SchemaName::from
SchemaName_from(schema_name) == SchemaName(schema_name)

\* Display of a FullTableName: "{}.{}"
full_name(full_table_name) ==
    schema(full_table_name) \o <<".">> \o table(full_table_name)

\* the calls made on the constructors of the definition crate
NameCalls ==
    {[fn |-> "FullTableName::try_from", object |-> o] : o \in ObjectNames}
    \cup {[fn |-> "SchemaName::try_from", object |-> o] : o \in ObjectNames}
    \cup {[fn |-> "SchemaName::from", schema_name |-> n] : n \in IdentValues}
    \cup {[fn |-> "FullTableName::from", schema_name |-> n, table_name |-> t] :
            n \in IdentValues, t \in IdentValues}

NameInit ==
    /\ change = NoChange
    /\ plan = NoPlan
    /\ pc = "idle"
    /\ sub = 1
    /\ ip = 1
    /\ catalog = EmptyCatalog
    /\ before = EmptyCatalog
    /\ outcome = Ok
    /\ again = FALSE
    /\ call \in NameCalls
    /\ ret = NoRet

NameFrame == UNCHANGED <<change, plan, sub, ip, catalog, before, outcome, again, call>>

TableTryFrom ==
    /\ pc = "idle"
    /\ call.fn = "FullTableName::try_from"
    /\ ret' = FullTableName_try_from(call.object)
    /\ pc' = "returned"
    /\ NameFrame

TableFrom ==
    /\ pc = "idle"
    /\ call.fn = "FullTableName::from"
    /\ ret' = OkOf(FullTableName_from(call.schema_name, call.table_name))
    /\ pc' = "returned"
    /\ NameFrame

SchemaTryFrom ==
    /\ pc = "idle"
    /\ call.fn = "SchemaName::try_from"
    /\ ret' = SchemaName_try_from(call.object)
    /\ pc' = "returned"
    /\ NameFrame

SchemaFrom ==
    /\ pc = "idle"
    /\ call.fn = "SchemaName::from"
    /\ ret' = OkOf(SchemaName_from(call.schema_name))
    /\ pc' = "returned"
    /\ NameFrame

NameNext ==
    \/ TableTryFrom
    \/ TableFrom
    \/ SchemaTryFrom
    \/ SchemaFrom

NameSpec == NameInit /\ [][NameNext]_vars

---------------------------------------------------------------------------
(* Properties of the definition crate. *)

IsTableNamingError(r) == ~r.ok /\ r # Panicked /\ r.error.error = "TableNamingError"

\* C14: FullTableName::try_from maps [t] to ("public", lower(t)) and [s, t] to
\* (lower(s), lower(t)); a name of three or more segments gives the
\* TableNamingError that carries the dotted name as it was written, and no
\* other name gives that error.
C14_TryFromSegments ==
    Returned("FullTableName::try_from") =>
        LET object == call.object
            n == Len(object)
        IN  /\ n = 1 => ret = OkOf(<<public, to_lowercase(object[1].value)>>)
            /\ n = 2 => ret = OkOf(<<to_lowercase(object[1].value),
                                     to_lowercase(object[2].value)>>)
            /\ n >= 3 => ret = ErrOf(TableNamingError(to_string(object)))
            /\ n = 3 => ret.error.name = object[1].value \o <<".">> \o object[2].value
                                         \o <<".">> \o object[3].value
            /\ IsTableNamingError(ret) => n >= 3

C14_Witness ==
    /\ Returned("FullTableName::try_from")
    /\ Len(call.object) = 2
    /\ call.object[2].value = <<"T", "_", "1">>
    /\ ret = OkOf(<<<<"s", "c", "h">>, <<"t", "_", "1">>>>)

IsLowercased(string) == to_lowercase(string) = string

\* C15: whichever public constructor built it (TryFrom<&ObjectName>,
\* SchemaName::from, From<(&S, &S)>), a SchemaName or a FullTableName holds
\* only lowercased identifiers.
C15_ConstructorsLowercase ==
    /\ (Returned("SchemaName::try_from") \/ Returned("SchemaName::from")) =>
            (ret.ok => IsLowercased(ret.value))
    /\ (Returned("FullTableName::try_from") \/ Returned("FullTableName::from")) =>
            (ret.ok => IsLowercased(schema(ret.value)) /\ IsLowercased(table(ret.value)))

---------------------------------------------------------------------------
(* query_analyzer: StaticTreeBuilder, the builder of expression trees for   *)
(* the contexts that admit literals and parameters only (INSERT VALUES).    *)

\* deepest nesting of binary operations in an expression
MaxDepth == 2

\* sql_ast::Value
Number(num) == [value |-> "Number", payload |-> num]

SingleQuotedString(string) == [value |-> "SingleQuotedString", payload |-> string]

NationalStringLiteral(string) == [value |-> "NationalStringLiteral", payload |-> string]

HexStringLiteral(string) == [value |-> "HexStringLiteral", payload |-> string]

Boolean(boolean) == [value |-> "Boolean", payload |-> boolean]

Interval(string) == [value |-> "Interval", payload |-> string]

Null == [value |-> "Null"]

Values ==
    {Number("1"), SingleQuotedString("str"), NationalStringLiteral("str"),
     HexStringLiteral("str"), Boolean(TRUE), Boolean(FALSE), Interval("value"), Null}

\* sql_ast::Expr
ExprValue(v) == [expr |-> "Value", value |-> v]

ExprIdentifier(i) == [expr |-> "Identifier", ident |-> i]

BinaryOp(left, op, right) == [expr |-> "BinaryOp", left |-> left, op |-> op, right |-> right]

\* an expression that is neither a value, nor an identifier, nor a binary operation
Wildcard == [expr |-> "Wildcard"]

\* sql_ast::BinaryOperator
BinaryOperators == {"Plus", "Gt", "And", "BitwiseOr", "StringConcat", "Like"}

col == <<"c", "o", "l">>

\* identifiers written in expressions: $1, $2, $0, col
ExprIdentValues == {<<"$", "1">>, <<"$", "2">>, <<"$", "0">>, col}

Leaves ==
    {ExprValue(v) : v \in Values}
    \cup {ExprIdentifier(Ident(i)) : i \in ExprIdentValues}
    \cup {Wildcard}

\* the operands of nested operations: a literal and a column name
NestedLeaves == {ExprValue(Number("1")), ExprIdentifier(Ident(col))}

NestedOperators == {"Plus", "Gt"}

RECURSIVE Nested(_)
\* binary operations nested up to depth d
Nested(d) ==
    IF d = 0 THEN NestedLeaves
    ELSE NestedLeaves
         \cup {BinaryOp(l, o, r) : l \in Nested(d - 1), o \in NestedOperators,
                                   r \in Nested(d - 1)}

Exprs ==
    Leaves
    \cup {BinaryOp(l, o, r) : l \in Leaves, o \in BinaryOperators, r \in Leaves}
    \cup Nested(MaxDepth)

\* data_manipulation_untyped_tree::UntypedValue
UntypedNumber(num) == [untyped |-> "Number", payload |-> num]

UntypedString(string) == [untyped |-> "String", payload |-> string]

UntypedBool(boolean) == [untyped |-> "Bool", payload |-> boolean]

UntypedNull == [untyped |-> "Null"]

\* StaticUntypedTree::Item(StaticUntypedItem::Const(_))
Const(untyped_value) == [tree |-> "Item", item |-> "Const", value |-> untyped_value]

\* StaticUntypedTree::Item(StaticUntypedItem::Param(_))
Param(index) == [tree |-> "Item", item |-> "Param", index |-> index]

\* StaticUntypedTree::Operation { left, op, right }
Operation(left, op, right) == [tree |-> "Operation", left |-> left, op |-> op, right |-> right]

\* AnalysisError
feature_not_supported(feature) == [error |-> "FeatureNotSupported", feature |-> feature]

syntax_error(original, expr) == [error |-> "SyntaxError", original |-> original, around |-> expr]

column_cant_be_referenced(name) == [error |-> "ColumnCantBeReferenced", name |-> name]

UndefinedFunction(operation) == [error |-> "UndefinedFunction", operation |-> operation]

\* OperationMapper::binary_operation: the operator table
binary_operation(op) ==
    CASE op = "Plus" -> [group |-> "Arithmetic", op |-> "Add"]
      [] op = "Gt" -> [group |-> "Comparison", op |-> "Gt"]
      [] op = "And" -> [group |-> "Logical", op |-> "And"]
      [] op = "BitwiseOr" -> [group |-> "Bitwise", op |-> "Or"]
      [] op = "StringConcat" -> [group |-> "StringOp", op |-> "Concat"]
      [] op = "Like" -> [group |-> "PatternMatching", op |-> "Like"]

Digits == <<"0", "1", "2", "3", "4", "5", "6", "7", "8", "9">>

IsDigit(c) == \E i \in DOMAIN Digits : Digits[i] = c

DigitValue(c) == (CHOOSE i \in DOMAIN Digits : Digits[i] = c) - 1

RECURSIVE Decimal(_)
\* the number a string of digits denotes
Decimal(string) ==
    IF string = <<>> THEN 0
    ELSE Decimal(SubSeq(string, 1, Len(string) - 1)) * 10 + DigitValue(string[Len(string)])

\* parse_param_index: $<n> with n >= 1 is the parameter of index n - 1
parse_param_index(string) ==
    IF /\ Len(string) >= 2
       /\ string[1] = "$"
       /\ \A i \in 2..Len(string) : IsDigit(string[i])
       /\ Decimal(Tail(string)) >= 1
    THEN Some(Decimal(Tail(string)) - 1)
    ELSE None

\* value that takes a hex string literal for a string
static_value_HexAsString(v) ==
    CASE v.value = "Number" -> OkOf(Const(UntypedNumber(v.payload)))
      [] v.value = "SingleQuotedString" -> OkOf(Const(UntypedString(v.payload)))
      [] v.value = "NationalStringLiteral" ->
            ErrOf(feature_not_supported("NationalStringLiteral"))
      [] v.value = "HexStringLiteral" -> OkOf(Const(UntypedString(v.payload)))
      [] v.value = "Boolean" -> OkOf(Const(UntypedBool(v.payload)))
      [] v.value = "Interval" -> ErrOf(feature_not_supported("TimeInterval"))
      [] v.value = "Null" -> OkOf(Const(UntypedNull))

\* StaticTreeBuilder::value
static_value(v) ==
    CASE v.value = "Number" -> OkOf(Const(UntypedNumber(v.payload)))
      [] v.value = "SingleQuotedString" -> OkOf(Const(UntypedString(v.payload)))
      [] v.value = "NationalStringLiteral" ->
            ErrOf(feature_not_supported("NationalStringLiteral"))
      [] v.value = "HexStringLiteral" -> ErrOf(feature_not_supported("HexStringLiteral"))
      [] v.value = "Boolean" -> OkOf(Const(UntypedBool(v.payload)))
      [] v.value = "Interval" -> ErrOf(feature_not_supported("TimeInterval"))
      [] v.value = "Null" -> OkOf(Const(UntypedNull))

\* ident that keeps the one-based number of the placeholder
static_ident_OneBased(i) ==
    IF parse_param_index(i.value) # None
    THEN OkOf(Param(parse_param_index(i.value)[1] + 1))
    ELSE ErrOf(column_cant_be_referenced(i.value))

\* StaticTreeBuilder::ident
static_ident(i) ==
    IF parse_param_index(i.value) # None
    THEN OkOf(Param(parse_param_index(i.value)[1]))
    ELSE ErrOf(column_cant_be_referenced(i.value))

\* op that hands on the error of the first operand that failed
static_op_ChildError(operator, left_item, right_item) ==
    IF left_item.ok /\ right_item.ok
    THEN OkOf(Operation(left_item.value, binary_operation(operator), right_item.value))
    ELSE IF ~left_item.ok THEN left_item ELSE right_item

\* StaticTreeBuilder::op, once both operands have been built
static_op(operator, left_item, right_item) ==
    IF left_item.ok /\ right_item.ok
    THEN OkOf(Operation(left_item.value, binary_operation(operator), right_item.value))
    ELSE ErrOf(UndefinedFunction(binary_operation(operator)))

RECURSIVE static_inner_build(_, _)
\* StaticTreeBuilder::inner_build
static_inner_build(root_expr, original) ==
    CASE root_expr.expr = "Value" -> static_value(root_expr.value)
      [] root_expr.expr = "Identifier" -> static_ident(root_expr.ident)
      [] root_expr.expr = "BinaryOp" ->
            static_op(root_expr.op,
                      static_inner_build(root_expr.left, original),
                      static_inner_build(root_expr.right, original))
      [] OTHER -> ErrOf(syntax_error(original, root_expr))

\* StaticTreeBuilder::build_from
static_build_from(root_expr, original) == static_inner_build(root_expr, original)

\* the statement the expressions of this section are taken from
Original == [statement |-> "Insert"]

TreeInit ==
    /\ change = NoChange
    /\ plan = NoPlan
    /\ pc = "idle"
    /\ sub = 1
    /\ ip = 1
    /\ catalog = EmptyCatalog
    /\ before = EmptyCatalog
    /\ outcome = Ok
    /\ again = FALSE
    /\ call \in {[fn |-> "build_from", root_expr |-> e, original |-> Original] : e \in Exprs}
    /\ ret = NoRet

BuildFrom ==
    /\ pc = "idle"
    /\ call.fn = "build_from"
    /\ ret' = static_build_from(call.root_expr, call.original)
    /\ pc' = "returned"
    /\ UNCHANGED <<change, plan, sub, ip, catalog, before, outcome, again, call>>

TreeNext == BuildFrom

TreeSpec == TreeInit /\ [][TreeNext]_vars

---------------------------------------------------------------------------
(* Properties of the static builder. *)

Built(shape) == Returned("build_from") /\ call.root_expr.expr = shape

\* C16: the static builder turns Number, SingleQuotedString, Boolean and Null
\* into the Const of the same value, answers NationalStringLiteral,
\* HexStringLiteral and Interval with FeatureNotSupported of that feature
\* (TimeInterval for Interval), and answers an expression that is neither a
\* value, nor an identifier, nor a binary operation with SyntaxError.
C16_StaticValues ==
    /\ Built("Value") =>
        LET v == call.root_expr.value
        IN  /\ v.value = "Number" => ret = OkOf(Const(UntypedNumber(v.payload)))
            /\ v.value = "SingleQuotedString" => ret = OkOf(Const(UntypedString(v.payload)))
            /\ v.value = "Boolean" => ret = OkOf(Const(UntypedBool(v.payload)))
            /\ v.value = "Null" => ret = OkOf(Const(UntypedNull))
            /\ v.value = "NationalStringLiteral" =>
                    ret = ErrOf(feature_not_supported("NationalStringLiteral"))
            /\ v.value = "HexStringLiteral" =>
                    ret = ErrOf(feature_not_supported("HexStringLiteral"))
            /\ v.value = "Interval" => ret = ErrOf(feature_not_supported("TimeInterval"))
    /\ (Returned("build_from")
            /\ call.root_expr.expr \notin {"Value", "Identifier", "BinaryOp"}) =>
        (~ret.ok /\ ret.error.error = "SyntaxError")

C16_Witness ==
    /\ Built("Value")
    /\ call.root_expr.value.value = "HexStringLiteral"
    /\ ret = ErrOf(feature_not_supported("HexStringLiteral"))

RECURSIVE OnlyParamsAndConsts(_)
\* every leaf of the tree is a Param or a Const
OnlyParamsAndConsts(tree) ==
    IF tree.tree = "Operation"
    THEN OnlyParamsAndConsts(tree.left) /\ OnlyParamsAndConsts(tree.right)
    ELSE tree.tree = "Item" /\ tree.item \in {"Param", "Const"}

\* C17: the static builder turns the identifier $n, n >= 1, into Param(n - 1)
\* and answers every other identifier, the name of a column included, with
\* ColumnCantBeReferenced of that name; the trees it builds have only Param
\* and Const leaves.
C17_StaticIdentifiers ==
    /\ Built("Identifier") =>
        LET name == call.root_expr.ident.value
        IN  /\ name = <<"$", "1">> => ret = OkOf(Param(0))
            /\ name = <<"$", "2">> => ret = OkOf(Param(1))
            /\ name \notin {<<"$", "1">>, <<"$", "2">>} =>
                    ret = ErrOf(column_cant_be_referenced(name))
    /\ (Returned("build_from") /\ ret.ok) => OnlyParamsAndConsts(ret.value)

C17_Witness ==
    /\ Built("Identifier")
    /\ call.root_expr.ident.value = <<"$", "2">>
    /\ ret = OkOf(Param(1))

\* C18: for a binary operation whose operands both build, the static builder
\* returns Operation{left, mapped operator, right} with the operands in source
\* order; when either operand fails it returns UndefinedFunction of the mapped
\* operator, whatever the operand's own error was.
C18_StaticOperations ==
    Built("BinaryOp") =>
        LET left_item == static_build_from(call.root_expr.left, call.original)
            right_item == static_build_from(call.root_expr.right, call.original)
            operation == binary_operation(call.root_expr.op)
        IN  IF left_item.ok /\ right_item.ok
            THEN /\ ret.ok
                 /\ ret.value.tree = "Operation"
                 /\ ret.value.left = left_item.value
                 /\ ret.value.op = operation
                 /\ ret.value.right = right_item.value
            ELSE ret = ErrOf(UndefinedFunction(operation))

C18_Witness ==
    /\ Built("BinaryOp")
    /\ call.root_expr.op = "Plus"
    /\ call.root_expr.left = ExprValue(NationalStringLiteral("str"))
    /\ call.root_expr.right = ExprValue(Number("1"))
    /\ ret = ErrOf(UndefinedFunction([group |-> "Arithmetic", op |-> "Add"]))

---------------------------------------------------------------------------
(* query_analyzer: Analyzer::analyze for the DML statements.  The analyzer  *)
(* reads the catalog the executor of the second section maintains.  Its     *)
(* code is not part of the files at hand, except for the conversion of the  *)
(* target name (FullTableName::try_from) and the static builder; the rest   *)
(* is written from the description of the shared preamble and of the        *)
(* analysis of each statement, and from the analyzer's tests.               *)

sch == <<"s", "c", "h">>

t_1 == <<"t", "_", "1">>

not_found == <<"n", "o", "t", "_", "f", "o", "u", "n", "d">>

\* the identifiers target names are written with
AnalyzerIdentValues == {public, <<"S", "C", "H">>, <<"T", "_", "1">>}

AnalyzerObjectNames == SeqUpTo({Ident(v) : v \in AnalyzerIdentValues}, MaxSegments)

AnalyzerSchemaNames == {public, sch}

AnalyzerFullTableNames == {FullTableName(s, t_1) : s \in AnalyzerSchemaNames}

\* InMemoryDatabase::new(): the schema public is there, and nothing else
FreshCatalog ==
    [schemas |-> {public}, tables |-> {},
     columns |-> [t \in AnalyzerFullTableNames |-> <<>>],
     folders |-> {public}, files |-> {}]

\* a column whose name has the form of a parameter placeholder
dollar_1 == <<"$", "1">>

\* the column lists tables are created with
AnalyzerColumnLists ==
    { << ColumnInfo(col, small_int) >>,
      << ColumnInfo(col, small_int), ColumnInfo(dollar_1, big_int) >>,
      << ColumnInfo(dollar_1, big_int), ColumnInfo(col, small_int) >> }

\* the DDL statements sent between analyses
AnalyzerChanges ==
    {CreateSchema(n, FALSE) : n \in AnalyzerSchemaNames}
    \cup {DropSchemas(<<n>>, c, FALSE) : n \in AnalyzerSchemaNames, c \in BOOLEAN}
    \cup {CreateTable(t, cols, FALSE) : t \in AnalyzerFullTableNames,
                                        cols \in AnalyzerColumnLists}
    \cup {DropTables(<<t>>, FALSE, FALSE) : t \in AnalyzerFullTableNames}

\* sql_ast::Statement
Insert(table_name, columns, values) ==
    [statement |-> "Insert", name |-> table_name, columns |-> columns, values |-> values]

Update(table_name, assignments) ==
    [statement |-> "Update", name |-> table_name, assignments |-> assignments]

Select(table_name, projection) ==
    [statement |-> "Select", name |-> table_name, projection |-> projection]

Delete(table_name) == [statement |-> "Delete", name |-> table_name]

\* sql_ast::SelectItem
SelectWildcard == [item |-> "Wildcard"]

UnnamedExpr(e) == [item |-> "UnnamedExpr", expr |-> e]

\* sql_ast::Assignment { id, value }
Assignment(id, value) == [id |-> id, value |-> value]

absent == <<"a", "b", "s", "e", "n", "t">>

\* the expressions written in the statements: 1, col, $1, $2
CellExprs ==
    {ExprValue(Number("1")), ExprIdentifier(Ident(col)), ExprIdentifier(Ident(dollar_1)),
     ExprIdentifier(Ident(<<"$", "2">>))}

\* the column-name lists of the INSERT statements
InsertColumnLists ==
    { <<>>, <<Ident(col)>>, <<Ident(not_found)>>, <<Ident(col), Ident(dollar_1)>>,
      <<Ident(col), Ident(not_found)>>, <<Ident(not_found), Ident(absent)>>,
      <<Ident(absent), Ident(not_found)>> }

\* the rows of the INSERT statements that name columns: one or two literals
InsertRows ==
    { << <<ExprValue(Number("1"))>> >>,
      << <<ExprValue(Number("1")), ExprValue(SingleQuotedString("str"))>> >> }

AnalyzerStatements ==
    UNION {
        {Insert(n, <<>>, <<>>), Delete(n), Select(n, <<SelectWildcard>>),
         Select(n, <<UnnamedExpr(ExprIdentifier(Ident(not_found)))>>),
         Update(n, <<Assignment(Ident(not_found), ExprValue(Number("1")))>>)}
        \cup {Insert(n, <<>>, << <<e>> >>) : e \in CellExprs}
        \cup {Insert(n, cols, rows) : cols \in InsertColumnLists, rows \in InsertRows}
        \cup {Select(n, <<UnnamedExpr(e)>>) : e \in CellExprs}
        \cup {Update(n, <<Assignment(Ident(col), e)>>) : e \in CellExprs}
      : n \in AnalyzerObjectNames}

\* Display of a TableNamingError
display(table_naming_error) ==
    <<"Unable to process table name '">> \o table_naming_error.name \o <<"'">>

\* AnalysisError
table_naming_error(message) == [error |-> "TableNamingError", message |-> message]

schema_does_not_exist(schema_name) == [error |-> "SchemaDoesNotExist", name |-> schema_name]

table_does_not_exist(table_name) == [error |-> "TableDoesNotExist", name |-> table_name]

column_not_found(column_name) == [error |-> "ColumnNotFound", name |-> column_name]

\* DynamicUntypedTree::Item(DynamicUntypedItem::Column { name, index, sql_type })
Column(name, index, sql_type) ==
    [tree |-> "Item", item |-> "Column", name |-> name, index |-> index,
     sql_type |-> sql_type]

has_column(columns, name) == \E i \in DOMAIN columns : columns[i].name = name

ord_num(columns, name) == (CHOOSE i \in DOMAIN columns : columns[i].name = name) - 1

\* ident that takes $n for a parameter before it looks for a column
dynamic_ident_ParamFirst(i, columns) ==
    IF parse_param_index(i.value) # None
    THEN OkOf(Param(parse_param_index(i.value)[1]))
    ELSE IF has_column(columns, i.value)
    THEN OkOf(Column(i.value, ord_num(columns, i.value),
                     columns[ord_num(columns, i.value) + 1].sql_type))
    ELSE ErrOf(column_not_found(i.value))

\* the dynamic builder resolves an identifier against the table first
dynamic_ident(i, columns) ==
    IF has_column(columns, i.value)
    THEN OkOf(Column(i.value, ord_num(columns, i.value),
                     columns[ord_num(columns, i.value) + 1].sql_type))
    ELSE IF parse_param_index(i.value) # None
    THEN OkOf(Param(parse_param_index(i.value)[1]))
    ELSE ErrOf(column_not_found(i.value))

RECURSIVE dynamic_build_from(_, _, _)
\* the dynamic builder: the static one but for identifiers
dynamic_build_from(root_expr, original, columns) ==
    CASE root_expr.expr = "Value" -> static_value(root_expr.value)
      [] root_expr.expr = "Identifier" -> dynamic_ident(root_expr.ident, columns)
      [] root_expr.expr = "BinaryOp" ->
            static_op(root_expr.op,
                      dynamic_build_from(root_expr.left, original, columns),
                      dynamic_build_from(root_expr.right, original, columns))
      [] OTHER -> ErrOf(syntax_error(original, root_expr))

\* the first error of a sequence of results, or the sequence of their values
collect(results) ==
    IF \E i \in DOMAIN results : ~results[i].ok
    THEN results[CHOOSE i \in DOMAIN results :
                    ~results[i].ok /\ \A j \in 1..(i - 1) : results[j].ok]
    ELSE OkOf([i \in DOMAIN results |-> results[i].value])

\* QueryAnalysis::Write(UntypedWrite::Insert(InsertQuery { .. }))
InsertQuery(full_table_name, values) ==
    [analysis |-> "Write", write |-> "Insert", full_table_name |-> full_table_name,
     values |-> values]

\* QueryAnalysis::Write(UntypedWrite::Update(UpdateQuery { .. }))
UpdateQuery(full_table_name, column_names, assignments) ==
    [analysis |-> "Write", write |-> "Update", full_table_name |-> full_table_name,
     column_names |-> column_names, assignments |-> assignments]

\* QueryAnalysis::Write(UntypedWrite::Delete(DeleteQuery { .. }))
DeleteQuery(full_table_name) ==
    [analysis |-> "Write", write |-> "Delete", full_table_name |-> full_table_name]

\* QueryAnalysis::Read(SelectQuery { .. })
SelectQuery(full_table_name, projection_items) ==
    [analysis |-> "Read", full_table_name |-> full_table_name,
     projection_items |-> projection_items]

\* resolve_columns that reports the last of the missing names
resolve_columns_LastMissing(idents, columns) ==
    IF \E i \in DOMAIN idents : ~has_column(columns, idents[i].value)
    THEN ErrOf(column_not_found(
            idents[CHOOSE i \in DOMAIN idents :
                    /\ ~has_column(columns, idents[i].value)
                    /\ \A j \in DOMAIN idents :
                            j > i => has_column(columns, idents[j].value)].value))
    ELSE OkOf([i \in DOMAIN idents |-> idents[i].value])

\* every listed column must be a column of the table
resolve_columns(idents, columns) ==
    collect([i \in DOMAIN idents |->
                IF has_column(columns, idents[i].value)
                THEN OkOf(idents[i].value)
                ELSE ErrOf(column_not_found(idents[i].value))])

analyze_insert(statement, full_table_name, columns) ==
    LET listed == resolve_columns(statement.columns, columns)
        row(cells) ==
            collect([i \in DOMAIN cells |->
                        LET tree == static_build_from(cells[i], statement)
                        IN  IF tree.ok THEN OkOf(Some(tree.value)) ELSE tree])
        rows == collect([i \in DOMAIN statement.values |-> row(statement.values[i])])
    IN  IF ~listed.ok THEN listed
        ELSE IF ~rows.ok THEN rows
        ELSE OkOf(InsertQuery(full_table_name, rows.value))

\* wildcard that numbers the columns from one
wildcard_OneBased(columns) ==
    [i \in DOMAIN columns |-> Column(columns[i].name, i, columns[i].sql_type)]

\* one Column per column of the table, in declared order
wildcard(columns) ==
    [i \in DOMAIN columns |-> Column(columns[i].name, i - 1, columns[i].sql_type)]

RECURSIVE projection_items(_, _, _)
projection_items(projection, statement, columns) ==
    IF projection = <<>> THEN OkOf(<<>>)
    ELSE LET rest == projection_items(Tail(projection), statement, columns)
             item == Head(projection)
             tree == dynamic_build_from(item.expr, statement, columns)
         IN  IF item.item = "Wildcard"
             THEN IF rest.ok THEN OkOf(wildcard(columns) \o rest.value) ELSE rest
             ELSE IF ~tree.ok THEN tree
             ELSE IF rest.ok THEN OkOf(<<tree.value>> \o rest.value) ELSE rest

analyze_select(statement, full_table_name, columns) ==
    LET items == projection_items(statement.projection, statement, columns)
    IN  IF items.ok THEN OkOf(SelectQuery(full_table_name, items.value)) ELSE items

analyze_update(statement, full_table_name, columns) ==
    LET assignments == statement.assignments
        names == resolve_columns([i \in DOMAIN assignments |-> assignments[i].id], columns)
        trees == collect([i \in DOMAIN assignments |->
                            dynamic_build_from(assignments[i].value, statement, columns)])
    IN  IF ~names.ok THEN names
        ELSE IF ~trees.ok THEN trees
        ELSE OkOf(UpdateQuery(full_table_name, names.value, trees.value))

\* Analyzer::analyze of a DML statement: the shared preamble, then the
\* statement's own analysis
analyze(cat, statement) ==
    LET converted == FullTableName_try_from(statement.name)
        full_table_name == converted.value
    IN  IF converted = Panicked THEN Panicked
        ELSE IF ~converted.ok THEN ErrOf(table_naming_error(display(converted.error)))
        ELSE IF schema(full_table_name) \notin cat.schemas
        THEN ErrOf(schema_does_not_exist(schema(full_table_name)))
        ELSE IF full_table_name \notin cat.tables
        THEN ErrOf(table_does_not_exist(full_name(full_table_name)))
        ELSE CASE statement.statement = "Insert" ->
                    analyze_insert(statement, full_table_name, cat.columns[full_table_name])
               [] statement.statement = "Select" ->
                    analyze_select(statement, full_table_name, cat.columns[full_table_name])
               [] statement.statement = "Update" ->
                    analyze_update(statement, full_table_name, cat.columns[full_table_name])
               [] statement.statement = "Delete" -> OkOf(DeleteQuery(full_table_name))

AnalyzeInit ==
    /\ change = NoChange
    /\ plan = NoPlan
    /\ pc = "idle"
    /\ sub = 1
    /\ ip = 1
    /\ catalog = FreshCatalog
    /\ before = FreshCatalog
    /\ outcome = Ok
    /\ again = FALSE
    /\ call = NoCall
    /\ ret = NoRet

\* a DDL statement arrives: it is planned and its plan starts executing
SubmitChange ==
    /\ pc = "idle"
    /\ \E c \in AnalyzerChanges :
        /\ change' = c
        /\ plan' = schema_change_plan(c)
    /\ pc' = "running"
    /\ sub' = 1
    /\ ip' = 1
    /\ before' = catalog
    /\ outcome' = Ok
    /\ again' = FALSE
    /\ UNCHANGED <<catalog, call, ret>>

\* analyze that creates the schema a statement names when it is missing
Analyze_CreatingSchema ==
    /\ pc = "idle"
    /\ \E statement \in AnalyzerStatements :
        /\ call' = statement
        /\ ret' = analyze(catalog, statement)
        /\ catalog' = IF ret'.ok \/ ret' = Panicked \/ ret'.error.error # "SchemaDoesNotExist"
                       THEN catalog
                       ELSE [catalog EXCEPT !.schemas = @ \cup {ret'.error.name}]
    /\ pc' = "analyzed"
    /\ UNCHANGED <<change, plan, sub, ip, before, outcome, again>>

\* analyzer.analyze(statement)
Analyze ==
    /\ pc = "idle"
    /\ \E statement \in AnalyzerStatements :
        /\ call' = statement
        /\ ret' = analyze(catalog, statement)
    /\ pc' = "analyzed"
    /\ UNCHANGED <<change, plan, sub, ip, catalog, before, outcome, again>>

\* analyzer.analyze of the statement that was just analyzed, once more
Reanalyze ==
    /\ pc = "analyzed"
    /\ ret' = analyze(catalog, call)
    /\ again' = TRUE
    /\ UNCHANGED <<change, plan, pc, sub, ip, catalog, before, outcome, call>>

\* the analysis is handed back
Analyzed ==
    /\ pc = "analyzed"
    /\ pc' = "idle"
    /\ call' = NoCall
    /\ ret' = NoRet
    /\ again' = FALSE
    /\ UNCHANGED <<change, plan, sub, ip, catalog, before, outcome>>

AnalyzeNext ==
    \/ SubmitChange
    \/ ExecCheckExistence
    \/ ExecCheckDependants
    \/ ExecMutation
    \/ Finish
    \/ Return
    \/ Analyze
    \/ Reanalyze
    \/ Analyzed

AnalyzeSpec == AnalyzeInit /\ [][AnalyzeNext]_vars

---------------------------------------------------------------------------
(* Properties of the analysis of DML statements. *)

AnalyzedDml == pc = "analyzed"

\* the table a target name of one or two segments denotes
Target(object) ==
    IF Len(object) = 1
    THEN <<public, to_lowercase(object[1].value)>>
    ELSE <<to_lowercase(object[1].value), to_lowercase(object[2].value)>>

\* the errors of the expression and column checks
BodyErrors ==
    {"ColumnNotFound", "ColumnCantBeReferenced", "UndefinedFunction",
     "FeatureNotSupported", "SyntaxError"}

\* C19: every analysis of an INSERT, UPDATE, SELECT or DELETE runs the same
\* preamble, and the first check that fails decides the error: a name of three
\* or more segments gives the table naming error, whatever the catalog holds;
\* otherwise a missing schema gives SchemaDoesNotExist(schema), even though the
\* table is missing too; otherwise a missing table gives
\* TableDoesNotExist("schema.table"); the checks of expressions and columns
\* come only after these three have passed.
C19_Preamble ==
    AnalyzedDml =>
        LET n == Len(call.name)
            target == Target(call.name)
        IN  /\ n >= 3 =>
                ret = ErrOf(table_naming_error(
                        <<"Unable to process table name '">> \o to_string(call.name) \o <<"'">>))
            /\ (n \in {1, 2} /\ target[1] \notin catalog.schemas) =>
                ret = ErrOf(schema_does_not_exist(target[1]))
            /\ (n \in {1, 2} /\ target[1] \in catalog.schemas /\ target \notin catalog.tables) =>
                ret = ErrOf(table_does_not_exist(target[1] \o <<".">> \o target[2]))
            /\ (~ret.ok /\ ret # Panicked /\ ret.error.error \in BodyErrors) =>
                (n \in {1, 2} /\ target[1] \in catalog.schemas /\ target \in catalog.tables)

\* an INSERT whose value is a column name, into a table that is missing from
\* an existing schema other than public
C19_Witness ==
    /\ AnalyzedDml
    /\ call.statement = "Insert"
    /\ call.values = << <<ExprIdentifier(Ident(col))>> >>
    /\ Len(call.name) = 2
    /\ ret = ErrOf(table_does_not_exist(<<"s", "c", "h", ".", "t", "_", "1">>))

Qualified(statement) == [statement EXCEPT !.name = <<Ident(public)>> \o @]

TargetColumns == catalog.columns[Target(call.name)]

\* the preamble passed: the target table is in the catalog
TargetExists ==
    /\ Len(call.name) \in {1, 2}
    /\ Target(call.name)[1] \in catalog.schemas
    /\ Target(call.name) \in catalog.tables

\* C21: SELECT * gives one Column{name, index, sql_type} per column of the
\* target table, in declared order, index being the position of the column
\* counted from zero and sql_type its declared type; the projection is as long
\* as the table has columns.
C21_SelectAll ==
    (AnalyzedDml /\ call.statement = "Select" /\ call.projection = <<SelectWildcard>>
        /\ TargetExists) =>
        /\ ret.ok
        /\ ret.value.full_table_name = Target(call.name)
        /\ Len(ret.value.projection_items) = Len(TargetColumns)
        /\ \A i \in 1..Len(TargetColumns) :
                ret.value.projection_items[i] =
                    [tree |-> "Item", item |-> "Column", name |-> TargetColumns[i].name,
                     index |-> i - 1, sql_type |-> TargetColumns[i].sql_type]

C21_Witness ==
    /\ AnalyzedDml
    /\ call.statement = "Select"
    /\ call.projection = <<SelectWildcard>>
    /\ ret.ok
    /\ ret.value.projection_items =
            <<Column(dollar_1, 0, big_int), Column(col, 1, small_int)>>

\* the statement hands one bare identifier to the dynamic builder: it is the
\* only projection item of a SELECT or the right-hand side of the only
\* assignment of an UPDATE
DynamicIdentifier ==
    IF call.statement = "Select"
    THEN /\ call.projection # <<SelectWildcard>>
         /\ call.projection[1].expr.expr = "Identifier"
    ELSE /\ call.statement = "Update"
         /\ call.assignments[1].value.expr = "Identifier"
         /\ \E i \in DOMAIN TargetColumns : TargetColumns[i].name = call.assignments[1].id.value

\* that identifier
BareIdentifier ==
    IF call.statement = "Select"
    THEN call.projection[1].expr.ident.value
    ELSE call.assignments[1].value.ident.value

\* what the dynamic builder made of it
ResolvedIdentifier ==
    IF call.statement = "Select"
    THEN ret.value.projection_items[1]
    ELSE ret.value.assignments[1]

\* C22: the dynamic builder resolves a bare identifier s in this order: a
\* column of the table named s gives Column{name = s, index, sql_type}, also
\* when s has the form $n; otherwise s of the form $n gives Param(n - 1);
\* otherwise the error is ColumnNotFound(s).  No analysis of a SELECT or of an
\* UPDATE ends with ColumnCantBeReferenced.
C22_DynamicIdentifiers ==
    /\ (AnalyzedDml /\ TargetExists /\ DynamicIdentifier) =>
        LET s == BareIdentifier
            positions == {i \in DOMAIN TargetColumns : TargetColumns[i].name = s}
        IN  IF positions # {}
            THEN /\ ret.ok
                 /\ \E i \in positions :
                        ResolvedIdentifier =
                            [tree |-> "Item", item |-> "Column", name |-> s,
                             index |-> i - 1, sql_type |-> TargetColumns[i].sql_type]
            ELSE IF s = <<"$", "1">> THEN ret.ok /\ ResolvedIdentifier = Param(0)
            ELSE IF s = <<"$", "2">> THEN ret.ok /\ ResolvedIdentifier = Param(1)
            ELSE ret = ErrOf(column_not_found(s))
    /\ (AnalyzedDml /\ call.statement \in {"Select", "Update"} /\ ~ret.ok /\ ret # Panicked) =>
            ret.error.error # "ColumnCantBeReferenced"

\* $1 on the right-hand side of an UPDATE of a table that has a column $1
C22_Witness ==
    /\ AnalyzedDml
    /\ call.statement = "Update"
    /\ TargetExists
    /\ DynamicIdentifier
    /\ BareIdentifier = dollar_1
    /\ ret.ok
    /\ ResolvedIdentifier = Column(dollar_1, 1, big_int)

\* the names of the declared columns of the target table
TargetColumnNames == {TargetColumns[i].name : i \in DOMAIN TargetColumns}

\* C23: an INSERT with a list of column names fails with ColumnNotFound of
\* the first listed name that is not a column of the target table; when every
\* listed name is a column the InsertQuery is the one of the statement without
\* the list: it carries the table name and the rows of value trees and nothing
\* else, each row as long as it was written.
C23_InsertColumnList ==
    (AnalyzedDml /\ call.statement = "Insert" /\ call.columns # <<>> /\ TargetExists) =>
        LET missing == {i \in DOMAIN call.columns :
                            call.columns[i].value \notin TargetColumnNames}
        IN  IF missing # {}
            THEN \E i \in missing :
                    /\ \A j \in missing : i <= j
                    /\ ret = ErrOf(column_not_found(call.columns[i].value))
            ELSE /\ ret = analyze(catalog, [call EXCEPT !.columns = <<>>])
                 /\ ret.ok
                 /\ DOMAIN ret.value = {"analysis", "write", "full_table_name", "values"}
                 /\ ret.value.full_table_name = Target(call.name)
                 /\ Len(ret.value.values) = Len(call.values)
                 /\ \A r \in DOMAIN call.values :
                        Len(ret.value.values[r]) = Len(call.values[r])

\* one column is named and the row holds two values
C23_Witness ==
    /\ AnalyzedDml
    /\ call.statement = "Insert"
    /\ call.columns = <<Ident(col)>>
    /\ ret.ok
    /\ Len(ret.value.values[1]) = 2

C25_FamilyLosesWidth ==
    Returned("family") =>
        /\ family(call.self) \in {"Bool", "String", "Integer", "Real"}
        /\ ret.ok => ret.value \in {"Bool", "String", "Integer", "Real"}
        /\ (call.self = small_int /\ call.other = big_int) => ret = OkOf("Integer")
        /\ (call.self = real /\ call.other = double_precision) => ret = OkOf("Real")

C25_Witness ==
    /\ Returned("family")
    /\ call.self = small_int
    /\ call.other = big_int
    /\ ret = OkOf("Integer")

\* the greatest of three numeric families in the order of Rank
Max3(a, b, c) ==
    CHOOSE m \in {a, b, c} : \A f \in {a, b, c} : Rank(f) <= Rank(m)

\* C26: compare(a, a) = a for each of the seven families, and on the numeric
\* families compare is associative: compare(compare(a, b), c) and
\* compare(a, compare(b, c)) are both the greatest of the three in the chain
\* SmallInt < Integer < BigInt < Real < Double.
C26_IdempotentAssociative ==
    /\ (Returned("compare") /\ call.self = call.other) => ret = OkOf(call.self)
    /\ (Returned("chain") /\ IsNumeric(call.a) /\ IsNumeric(call.b) /\ IsNumeric(call.c)) =>
            /\ ret.left = ret.right
            /\ ret.left = OkOf(Max3(call.a, call.b, call.c))

C26_Witness ==
    /\ Returned("chain")
    /\ call.a = "Integer"
    /\ call.b = "BigInt"
    /\ call.c = "SmallInt"
    /\ ret.left = OkOf("BigInt")
    /\ ret.right = OkOf("BigInt")

RECURSIVE HasFailingLeaf(_, _)
\* some leaf of the expression, at any depth, is one the static builder rejects
HasFailingLeaf(root_expr, original) ==
    IF root_expr.expr = "BinaryOp"
    THEN HasFailingLeaf(root_expr.left, original) \/ HasFailingLeaf(root_expr.right, original)
    ELSE ~static_inner_build(root_expr, original).ok

\* the operation with its operands exchanged
Mirror(root_expr) == BinaryOp(root_expr.right, root_expr.op, root_expr.left)

\* C27: a nested binary operation with a failing leaf anywhere below it fails
\* with UndefinedFunction of the root operator: every enclosing operation
\* replaces its operand's error with its own.  The outcome does not depend on
\* the side the failure is on, and without a failing leaf the build succeeds.
C27_RootOperatorReported ==
    Built("BinaryOp") =>
        LET root_expr == call.root_expr
            failed == ErrOf(UndefinedFunction(binary_operation(root_expr.op)))
        IN  /\ HasFailingLeaf(root_expr, call.original) <=> ~ret.ok
            /\ ~ret.ok => ret = failed
            /\ ~ret.ok => static_build_from(Mirror(root_expr), call.original) = failed

\* Plus over a Gt whose right operand names a column: the error names Plus
C27_Witness ==
    /\ Built("BinaryOp")
    /\ call.root_expr.op = "Plus"
    /\ call.root_expr.left = ExprValue(Number("1"))
    /\ call.root_expr.right =
            BinaryOp(ExprValue(Number("1")), "Gt", ExprIdentifier(Ident(col)))
    /\ ret = ErrOf(UndefinedFunction(binary_operation("Plus")))

IsDrop(q) == q.tag \in {"DropSchemas", "DropTables"}

\* the list of names of a drop
DropNames(q) == IF q.tag = "DropSchemas" THEN q.schema_names ELSE q.full_table_names

\* the drop with the same flags and another list of names
WithNames(q, names) ==
    IF q.tag = "DropSchemas"
    THEN DropSchemas(names, q.cascade, q.if_exists)
    ELSE DropTables(names, q.cascade, q.if_exists)

\* the object a step names
StepObject(st) ==
    CASE st.step \in {"CheckExistence", "CheckDependants", "RemoveDependants"} ->
            st.object_name
      [] st.step = "RemoveRecord" /\ st.record.record = "Schema" ->
            <<st.record.schema_name>>
      [] st.step = "RemoveRecord" /\ st.record.record = "Table" ->
            <<st.record.schema_name, st.record.table_name>>
      [] st.step = "RemoveFolder" -> <<st.name>>
      [] st.step = "RemoveFile" -> <<st.folder_name, st.name>>
      [] st.step = "RemoveColumns" -> <<st.schema_name, st.table_name>>

\* the objects the sub-program of the name may refer to
ObjectsOf(q, name) ==
    IF q.tag = "DropSchemas"
    THEN {<<name>>}
    ELSE {<<schema(name)>>, <<schema(name), table(name)>>}

\* the object of the name is in the catalog
InCatalog(cat, q, name) ==
    IF q.tag = "DropSchemas"
    THEN name \in cat.schemas
    ELSE schema(name) \in cat.schemas /\ <<schema(name), table(name)>> \in cat.tables

\* the first sub-program of the drop of the name can run to its end
Removable(cat, q, name) ==
    /\ InCatalog(cat, q, name)
    /\ q.tag = "DropSchemas" => (q.cascade \/ TablesOf(cat, name) = {})

\* C28: the plan of a drop treats the list of names element by element and
\* keeps repeated names: the steps for xs \o ys are the steps for xs followed
\* by the steps for ys; every step of sub-program i names the i-th object
\* only (for a table also its schema); and when a name that can be removed is
\* listed twice without IF EXISTS, execution removes the object in the first
\* sub-program and ends with ObjectDoesNotExist in the second.
C28_DropElementWise ==
    (pc \in {"running", "done"} /\ IsDrop(change)) =>
        LET names == DropNames(change)
        IN  /\ \A k \in 0..Len(names) :
                plan.steps =
                    schema_change_plan(WithNames(change, SubSeq(names, 1, k))).steps
                    \o schema_change_plan(WithNames(change, SubSeq(names, k + 1, Len(names)))).steps
            /\ Len(plan.steps) = Len(names)
            /\ \A i \in DOMAIN plan.steps : \A n \in DOMAIN plan.steps[i] :
                    StepObject(plan.steps[i][n]) \in ObjectsOf(change, names[i])
            /\ \A i \in DOMAIN names : \A j \in DOMAIN names :
                    names[i] = names[j] => plan.steps[i] = plan.steps[j]
            /\ (/\ pc = "done"
                /\ ~change.if_exists
                /\ Len(names) >= 2
                /\ names[1] = names[2]
                /\ Removable(before, change, names[1])) =>
                    /\ ~InCatalog(catalog, change, names[1])
                    /\ outcome = Err("ObjectDoesNotExist", plan.kind.object,
                                     IF change.tag = "DropSchemas"
                                     THEN <<names[1]>>
                                     ELSE <<schema(names[1]), table(names[1])>>)
                    /\ sub = 2

\* a schema with a table in it was dropped twice by one statement
C28_Witness ==
    /\ pc = "done"
    /\ change = DropSchemas(<<"schema", "schema">>, TRUE, FALSE)
    /\ TablesOf(before, "schema") # {}
    /\ "schema" \notin catalog.schemas
    /\ outcome = Err("ObjectDoesNotExist", Schema, <<"schema">>)

IsSchemaNamingError(r) == ~r.ok /\ r # Panicked /\ r.error.error = "SchemaNamingError"

\* C29: for an object name of any number of segments, none included,
\* FullTableName::try_from returns Ok or TableNamingError and
\* SchemaName::try_from returns Ok or SchemaNamingError (Ok exactly for one
\* segment, and for one or two segments of a table name); neither aborts.
C29_NameConstructionTotal ==
    /\ Returned("FullTableName::try_from") =>
            /\ ret # Panicked
            /\ ret.ok \/ IsTableNamingError(ret)
            /\ ret.ok <=> Len(call.object) \in {1, 2}
    /\ Returned("SchemaName::try_from") =>
            /\ ret # Panicked
            /\ ret.ok \/ IsSchemaNamingError(ret)
            /\ ret.ok <=> Len(call.object) = 1

---------------------------------------------------------------------------
(* read_query/executor: ReadQueryExecutor::execute.  The database and its  *)
(* tables are not part of the crate: a table is its column names and its   *)
(* rows, select returns all of it, and select_with_columns returns the     *)
(* requested columns of every row or the name of a column it does not have. *)

ReadColumnNames == ColumnNames \cup {"col_3"}

ReadValues == {0, 1}

ReadColumnLists == { <<"col_1">>, <<"col_1", "col_2">>, <<"col_2", "col_1">> }

\* the tables of the database: up to one row under each list of columns
ReadTables ==
    UNION { {[columns |-> cols, rows |-> rows] :
                rows \in SeqUpTo([DOMAIN cols -> ReadValues], 1)} :
            cols \in ReadColumnLists }

ReadTableName == FullTableName("schema", "table")

\* read_query_plan::SelectPlan
SelectPlan(table_name, columns) == [table |-> table_name, columns |-> columns]

SelectPlans ==
    {SelectPlan(ReadTableName, columns) : columns \in SeqUpTo(ReadColumnNames, MaxColumns)}

\* QueryExecution::Selected
Selected(data) == [execution |-> "Selected", data |-> data]

\* QueryExecutionError::SchemaDoesNotExist
SchemaDoesNotExist(name) == [error |-> "SchemaDoesNotExist", name |-> name]

\* Database::work_with: the table of that name
work_with(database, full_table_name) == database[full_table_name]

\* SqlTable::select
select(sql_table) == [columns |-> sql_table.columns, rows |-> sql_table.rows]

\* the position of a column of the table
ColumnIndex(sql_table, column_name) ==
    CHOOSE i \in DOMAIN sql_table.columns : sql_table.columns[i] = column_name

\* the requested columns the table does not have
Unresolved(sql_table, columns) ==
    {i \in DOMAIN columns : \A j \in DOMAIN sql_table.columns :
                                sql_table.columns[j] # columns[i]}

\* SqlTable::select_with_columns
select_with_columns(sql_table, columns) ==
    LET missing == Unresolved(sql_table, columns)
    IN  IF missing # {}
        THEN ErrOf(columns[CHOOSE i \in missing : \A j \in missing : i <= j])
        ELSE OkOf([columns |-> columns,
                   rows |-> [r \in DOMAIN sql_table.rows |->
                                [c \in DOMAIN columns |->
                                    sql_table.rows[r][ColumnIndex(sql_table, columns[c])]]]])

\* ReadQueryExecutor::execute
execute(self, select_plan) ==
    IF select_plan.columns = <<>>
    THEN OkOf(Selected(select(work_with(self.database, select_plan.table))))
    ELSE LET selected == select_with_columns(work_with(self.database, select_plan.table),
                                             select_plan.columns)
         IN  IF selected.ok
             THEN OkOf(Selected(selected.value))
             ELSE ErrOf(SchemaDoesNotExist(selected.error))

ReadCalls ==
    {[fn |-> "execute",
      self |-> [database |-> [t \in {ReadTableName} |-> sql_table]],
      select |-> select_plan] : sql_table \in ReadTables, select_plan \in SelectPlans}

ReadInit ==
    /\ change = NoChange
    /\ plan = NoPlan
    /\ pc = "idle"
    /\ sub = 1
    /\ ip = 1
    /\ catalog = EmptyCatalog
    /\ before = EmptyCatalog
    /\ outcome = Ok
    /\ again = FALSE
    /\ call \in ReadCalls
    /\ ret = NoRet

\* executor.execute(select)
Execute ==
    /\ pc = "idle"
    /\ call.fn = "execute"
    /\ ret' = execute(call.self, call.select)
    /\ pc' = "returned"
    /\ UNCHANGED <<change, plan, sub, ip, catalog, before, outcome, again, call>>

ReadNext == Execute

ReadSpec == ReadInit /\ [][ReadNext]_vars

\* the table the call reads
ReadTable == call.self.database[call.select.table]

\* C30: execute answers an empty column list with the whole table and never
\* with an error; for a list that is not empty it returns Selected(data)
\* exactly when the table has every requested column, and otherwise an error
\* that carries the name of a requested column the table does not have and
\* whose kind denotes a missing column, not a missing schema.
C30_MissingColumnReported ==
    Returned("execute") =>
        /\ call.select.columns = <<>> => ret = OkOf(Selected(select(ReadTable)))
        /\ call.select.columns # <<>> =>
            /\ ret.ok <=> Unresolved(ReadTable, call.select.columns) = {}
            /\ ret.ok => /\ ret.value.execution = "Selected"
                         /\ ret.value.data.columns = call.select.columns
            /\ ~ret.ok =>
                /\ \E i \in Unresolved(ReadTable, call.select.columns) :
                        ret.error.name = call.select.columns[i]
                /\ ret.error.error # "SchemaDoesNotExist"
                /\ DOMAIN ret = {"ok", "error"}

\* what holds of the errors: they carry the name of an unresolved column,
\* under the kind SchemaDoesNotExist
C30_ReportedAsSchema ==
    (Returned("execute") /\ ~ret.ok) =>
        /\ call.select.columns # <<>>
        /\ \E i \in Unresolved(ReadTable, call.select.columns) :
                ret = ErrOf(SchemaDoesNotExist(call.select.columns[i]))

=============================================================================
